---- MODULE Spec2Model ----
(***************************************************************************)
(* Model of the UX Bench recorder's background service worker (worker.ts): *)
(* the recording lifecycle (startRecording / stopRecording), the event     *)
(* serialization queue (handleEvent) and the per-type metric processors    *)
(* (handleEventInternal), running against chrome.storage.local.            *)
(*                                                                         *)
(* Conventions.                                                            *)
(*  - A JavaScript value that may be null/undefined is a sequence of       *)
(*    length 0 (absent) or 1 (present).                                    *)
(*  - A JavaScript string that the code cuts or concatenates is a          *)
(*    sequence of one-character strings; '' is the empty sequence.         *)
(*  - Non-integer numbers are fixed point: bits of Fitts ID in 1/1000      *)
(*    (milli-bits), pixel averages in 1/1000 px, composite in 1/1000.      *)
(*  - An async function is cut at its awaits: one action per segment.      *)
(***************************************************************************)
EXTENDS Integers, Sequences, FiniteSets, TLC

\* ------------------------------------------------------------------
\* Bounds of the model (not program constants)
\* ------------------------------------------------------------------
MaxTasks == 2

MaxEvents == 2

MaxQueued == 3

MaxCalls == 3

MaxCommands == 1

MaxTicks == 1

MaxSessionTicks == 1

MaxStopTicks == 3

MaxRestartEvents == 3

MaxClicks == 5
\* clicks handled by LogSpec after the prefilled ones
MaxLogClicks == 4
\* clicks handled by DetailSpec
MaxDetailClicks == 3
\* scroll and keyboard updates handled by LatestSpec
MaxUpdates == 3
\* clicks and cursor-travel updates handled by TravelSpec
MaxTravelEvents == 3
\* stored runs of ExportSpec, and clicks on its download button that
\* export or warn
MaxRuns == 3
MaxExports == 1

\* clicks on the side panel's action button in PanelSpec
MaxPanelClicks == 3

\* ------------------------------------------------------------------
\* Program constants
\* ------------------------------------------------------------------
IDLE_GAP_MS == 3000

ACTION_LOG_MAX == 500

SCROLL_FEED_THROTTLE_MS == 500

LABEL_MAX == 40

\* COMPOSITE_WEIGHTS, in thousandths of a point per unit
W_WAIT_PER_MS == 1

W_DEPTH == 2000

W_SWITCHES == 1500

W_FITTS_PER_MILLIBIT == 1

W_SCROLL_PER_PX == 5

\* Date.now() when the worker is installed
T0 == 10000

\* ------------------------------------------------------------------
\* Small helpers
\* ------------------------------------------------------------------
Abs(n) == IF n < 0 THEN -n ELSE n

Min(a, b) == IF a < b THEN a ELSE b

Pow2(n) == 2 ^ n

\* Newton's iteration from above: the integer square root of n > 0
RECURSIVE ISqrtFrom(_, _)
ISqrtFrom(n, x) ==
    LET y == (x + n \div x) \div 2
    IN  IF y >= x THEN x ELSE ISqrtFrom(n, y)

\* the squared distance used as the distance
ISqrtOmitted(n) == n

\* Math.sqrt on the integers the model uses (floor of the root; the click
\* positions of the model give perfect squares).
ISqrt(n) == IF n = 0 THEN 0 ELSE ISqrtFrom(n, n)

\* Math.round for a non-negative fixed-point value given in thousandths.
RoundMilli(v) == (v + 500) \div 1000

\* Strings as character sequences
S_BUTTON == <<"B", "U", "T", "T", "O", "N">>

S_DIV == <<"D", "I", "V">>

S_click == <<"c", "l", "i", "c", "k">>

S_start == <<"s", "t", "a", "r", "t">>

S_keyboard == <<"k", "e", "y", "b", "o", "a", "r", "d">>

S_keyboard_update == <<"k", "e", "y", "b", "o", "a", "r", "d", "_", "u", "p", "d", "a", "t", "e">>

S_scroll_update == <<"s", "c", "r", "o", "l", "l", "_", "u", "p", "d", "a", "t", "e">>

S_unknown == <<"u", "n", "k", "n", "o", "w", "n">>

\* String.prototype.substring(0, n)
Substring0(s, n) == SubSeq(s, 1, Min(n, Len(s)))

\* a || b for strings: the empty string is falsy
OrStr(a, b) == IF a # <<>> THEN a ELSE b


\* ------------------------------------------------------------------
\* Math.log2 in fixed point
\* ------------------------------------------------------------------
FRAC_ONE == 16384

RECURSIVE Log2Int(_, _, _)
Log2Int(num, den, k) ==
    IF den * Pow2(k + 1) <= num THEN Log2Int(num, den, k + 1) ELSE k

RECURSIVE Shrink(_, _)
Shrink(n, d) == IF d > 65535 THEN Shrink(n \div 2, d \div 2) ELSE <<n, d>>

\* the first `bits` binary digits of log2(r / FRAC_ONE), 1 <= r/FRAC_ONE < 2,
\* by repeated squaring
RECURSIVE Log2Frac(_, _, _)
Log2Frac(r, bits, acc) ==
    IF bits = 0 THEN acc
    ELSE LET sq == (r * r) \div FRAC_ONE
         IN  IF sq >= 2 * FRAC_ONE
             THEN Log2Frac(sq \div 2, bits - 1, 2 * acc + 1)
             ELSE Log2Frac(sq, bits - 1, 2 * acc)

\* Math.log2(num / den) in milli-bits, for num >= den > 0
Log2Milli(num, den) ==
    LET k  == Log2Int(num, den, 0)
        nd == Shrink(num, den * Pow2(k))
        r  == FRAC_ONE + ((nd[1] - nd[2]) * FRAC_ONE) \div nd[2]
    IN  k * 1000 + (Log2Frac(r, 10, 0) * 1000) \div 1024

\* ------------------------------------------------------------------
\* Event payloads (EVENT_CAPTURED messages of the content script)
\* ------------------------------------------------------------------
Target(tag, id, text, w, h) ==
    [tagName |-> tag, id |-> id, innerText |-> text,
     rect |-> [width |-> w, height |-> h]]

ClickPayload(ts, x, y, cls, reason, target) ==
    [type |-> "click", timestamp |-> ts, x |-> x, y |-> y,
     classification |-> cls, classificationReason |-> reason,
     target |-> target]

\* The clicks the content script may report at wall-clock time ts.
\* classification "" is a payload without the field; "rage" is a value
\* the worker does not know; the last payload has no target.
ClickPayloads(ts) ==
    { ClickPayload(ts, 100, 100, "productive", <<>>,
                   <<Target(S_BUTTON, <<>>, <<"A">>, 80, 32)>>),
      ClickPayload(ts, 500, 100, "wasted", <<"d", "i", "s">>,
                   <<Target(S_BUTTON, <<"b">>, <<"B">>, 40, 20)>>),
      ClickPayload(ts, 500, 400, "ceremonial", <<>>,
                   <<Target(S_DIV, <<>>, <<>>, 0, 0)>>),
      ClickPayload(ts, 500, 400, "", <<>>,
                   <<Target(S_DIV, <<"c">>, <<"C">>, 30, 0)>>),
      ClickPayload(ts, 100, 100, "rage", <<"r">>,
                   <<Target(S_BUTTON, <<>>, <<"A">>, 80, 32)>>),
      ClickPayload(ts, 100, 100, "productive", <<>>, <<>>) }

ScrollPayloads ==
    { [type |-> "scroll_update", total_px |-> 2000, page_scroll_px |-> 1500,
       container_scroll_px |-> 500, total_horizontal_px |-> <<>>,
       scroll_events |-> 10, heaviest_container |-> <<"s">>] }

KeyboardPayloads ==
    { [type |-> "keyboard_update",
       context_switches |-> [total |-> 3, ratio |-> 200,
                             longest_keyboard_streak |-> 5,
                             longest_mouse_streak |-> 2],
       shortcut_coverage |-> [shortcuts_used |-> 1],
       typing_ratio |-> [free_text_inputs |-> 2, constrained_inputs |-> 1,
                         ratio |-> 670, free_text_fields |-> <<"N">>]] }

DepthPayloads ==
    { [type |-> "depth_update",
       navigation_depth |-> [max_depth |-> 2, total_depth_changes |-> 1,
                             deepest_moment |-> <<"m">>,
                             depth_path |-> <<[direction |-> "open", layer |-> "modal"]>>]] }

DensityPayloads ==
    { [type |-> "density_update",
       information_density |-> [average_content_ratio |-> 450,
                                min_content_ratio |-> 300,
                                max_content_ratio |-> 600,
                                min_content_context |-> <<>>,
                                max_content_context |-> <<>>]] }

WaitPayloads ==
    { [type |-> "wait_update", application_wait_ms |-> 1500] }

\* an event of a type the router has no case for (a cursor-travel update)
MousePayloads ==
    { [type |-> "mouse_travel", total_px |-> 1200] }

Payloads(ts) ==
    ClickPayloads(ts) \cup ScrollPayloads \cup KeyboardPayloads
        \cup DepthPayloads \cup DensityPayloads \cup WaitPayloads
        \cup MousePayloads

\* ------------------------------------------------------------------
\* RecordingState and BenchmarkReport
\* ------------------------------------------------------------------
\* const initialState = { isRecording: false }; also stopRecording's finalState
initialState ==
    [isRecording |-> FALSE, startTime |-> 0,
     lastClickPosition |-> <<>>, lastClickTarget |-> <<>>,
     lastActionTime |-> 0, lastActionLabel |-> <<>>,
     currentRecording |-> <<>>, applied |-> {}, ids |-> <<>>]

\* the metrics skeleton that startRecording builds
EmptyMetrics ==
    [click_count |-> [total |-> 0, productive |-> 0, ceremonial |-> 0,
                      wasted |-> 0, ceremonial_details |-> <<>>,
                      wasted_details |-> <<>>],
     time_on_task |-> [total_ms |-> 0, application_wait_ms |-> 0,
                       idle_gaps |-> <<>>, idle_ms |-> <<>>,
                       active_ms |-> <<>>, longest_idle_ms |-> <<>>,
                       longest_idle_after |-> <<>>],
     fitts |-> [formula |-> "shannon", cumulative_id |-> 0, average_id |-> 0,
                max_id |-> 0, max_id_element |-> <<>>,
                max_id_distance_px |-> 0, max_id_target_size |-> <<>>,
                top_3_hardest |-> <<>>],
     information_density |-> [method |-> "dom-coverage",
                              average_content_ratio |-> 0,
                              min_content_ratio |-> 0,
                              max_content_ratio |-> 0,
                              min_content_context |-> <<>>,
                              max_content_context |-> <<>>],
     context_switches |-> [total |-> 0, ratio |-> 0,
                           longest_keyboard_streak |-> <<>>,
                           longest_mouse_streak |-> <<>>],
     shortcut_coverage |-> [shortcuts_used |-> 0],
     typing_ratio |-> [free_text_inputs |-> 0, constrained_inputs |-> 0,
                       ratio |-> 0, free_text_fields |-> <<>>],
     navigation_depth |-> [max_depth |-> 1, total_depth_changes |-> 0,
                           deepest_moment |-> <<>>, depth_path |-> <<>>],
     scanning_distance |-> [method |-> "euclidean", cumulative_px |-> 0,
                            average_px |-> 0, max_single_px |-> 0,
                            max_single_from |-> <<>>, max_single_to |-> <<>>],
     scroll_distance |-> [total_px |-> 0, page_scroll_px |-> <<>>,
                          container_scroll_px |-> <<>>,
                          total_horizontal_px |-> <<>>,
                          scroll_events |-> <<>>, heaviest_container |-> <<>>],
     composite_score |-> 0]

\* the report skeleton that startRecording builds at wall-clock time now
EmptyReport(now) ==
    [schema_version |-> "1.0", source |-> "chrome-extension",
     metadata |-> [duration_ms |-> 0, operator |-> "human", timestamp |-> now],
     metrics |-> EmptyMetrics,
     action_log |-> <<>>]

\* a start state whose lastActionTime is left unset
StartStateNoActionTime(now) ==
    [isRecording |-> TRUE, startTime |-> now,
     lastClickPosition |-> <<>>, lastClickTarget |-> <<>>,
     lastActionTime |-> 0, lastActionLabel |-> <<>>,
     currentRecording |-> <<EmptyReport(now)>>,
     applied |-> {}, ids |-> <<>>]

\* the RecordingState that startRecording writes at wall-clock time now.
\* applied and ids are history fields, not in the code: the queue positions
\* of the events whose write-back this state includes, and every Fitts ID
\* computed for a click of the session, in order.
StartState(now) ==
    [isRecording |-> TRUE, startTime |-> now,
     lastClickPosition |-> <<>>, lastClickTarget |-> <<>>,
     lastActionTime |-> now, lastActionLabel |-> <<>>,
     currentRecording |-> <<EmptyReport(now)>>,
     applied |-> {}, ids |-> <<>>]

\* a composite of context switches, Fitts bits and scroll distance only
computeCompositeThree(m) ==
    m.context_switches.total * W_SWITCHES
        + m.fitts.cumulative_id * W_FITTS_PER_MILLIBIT
        + m.scroll_distance.total_px * W_SCROLL_PER_PX

\* function computeComposite(m), in thousandths
computeComposite(m) ==
    m.time_on_task.application_wait_ms * W_WAIT_PER_MS
        + m.navigation_depth.max_depth * W_DEPTH
        + m.context_switches.total * W_SWITCHES
        + m.fitts.cumulative_id * W_FITTS_PER_MILLIBIT
        + m.scroll_distance.total_px * W_SCROLL_PER_PX


\* Math.round(v * 10) / 10 and round2(v), on thousandths
Round1(v) == ((v + 50) \div 100) * 100

round2(v) == ((v + 5) \div 10) * 10

\* ------------------------------------------------------------------
\* Per-type processors. Each takes the RecordingState object that
\* handleEventInternal read from the store and returns it as mutated.
\* ------------------------------------------------------------------
Rec(rs) == rs.currentRecording[1]

\* payload.target?.innerText?.substring(0, 40) || payload.target?.tagName || 'click'
ClickLabel(payload) ==
    IF payload.target = <<>> THEN S_click
    ELSE OrStr(OrStr(Substring0(payload.target[1].innerText, LABEL_MAX),
                     payload.target[1].tagName), S_click)

\* payload.type as a string value
TypeLabel(payload) ==
    CASE payload.type = "keyboard_update" -> S_keyboard_update
      [] payload.type = "scroll_update"   -> S_scroll_update
      [] OTHER                            -> S_unknown

\* a threshold that includes IDLE_GAP_MS itself
IsIdleGapInclusive(gap) == gap >= IDLE_GAP_MS

\* the condition under which detectIdleGap appends a gap
IsIdleGap(gap) == gap > IDLE_GAP_MS

\* function detectIdleGap(recording, payload, recordingState, now)
detectIdleGap(rs, payload, now) ==
    LET gap == now - rs.lastActionTime
        actionLabel == IF payload.type = "click" THEN ClickLabel(payload)
                       ELSE TypeLabel(payload)
        entry == [gap_ms |-> gap,
                  after_action |-> OrStr(rs.lastActionLabel, S_start),
                  before_action |-> actionLabel,
                  emitted |-> FALSE]
        rs1 == IF rs.lastActionTime # 0 /\ IsIdleGap(gap)
               THEN [rs EXCEPT !.currentRecording[1].metrics.time_on_task.idle_gaps
                                    = Append(@, entry)]
               ELSE rs
    IN  [rs1 EXCEPT !.lastActionTime = now]

\* tagName + (id ? '#' + id : '')
ElLabel(t) == t.tagName \o (IF t.id # <<>> THEN <<"#">> \o t.id ELSE <<>>)

\* a classifier that counts into a bucket only the three values it knows
classifyAndCountKnownOnly(m, payload) ==
    LET cc == [m.click_count EXCEPT !.total = @ + 1]
    IN  [m EXCEPT !.click_count =
            IF payload.classification = "wasted"
            THEN [cc EXCEPT !.wasted = @ + 1]
            ELSE IF payload.classification = "ceremonial"
            THEN [cc EXCEPT !.ceremonial = @ + 1]
            ELSE IF payload.classification = "productive"
            THEN [cc EXCEPT !.productive = @ + 1]
            ELSE cc]

\* a classifier that records a detail for every wasted or ceremonial click
classifyAndCountAlwaysDetail(m, payload) ==
    LET detail == [element |-> ElLabel(payload.target[1]),
                   reason |-> payload.classificationReason]
        cc1 == [m.click_count EXCEPT !.total = @ + 1]
    IN  [m EXCEPT !.click_count =
            IF payload.classification = "wasted"
            THEN [cc1 EXCEPT !.wasted = @ + 1,
                             !.wasted_details = Append(@, detail)]
            ELSE IF payload.classification = "ceremonial"
            THEN [cc1 EXCEPT !.ceremonial = @ + 1,
                             !.ceremonial_details = Append(@, detail)]
            ELSE [cc1 EXCEPT !.productive = @ + 1]]

\* function classifyAndCount(m, payload), for a payload with a target
classifyAndCount(m, payload) ==
    LET cc == m.click_count
        detail == [element |-> ElLabel(payload.target[1]),
                   reason |-> payload.classificationReason]
        cc1 == [cc EXCEPT !.total = @ + 1]
        cc2 ==
            IF payload.classification = "wasted"
            THEN [cc1 EXCEPT !.wasted = @ + 1,
                             !.wasted_details =
                                 IF payload.classificationReason # <<>>
                                 THEN Append(@, detail) ELSE @]
            ELSE IF payload.classification = "ceremonial"
            THEN [cc1 EXCEPT !.ceremonial = @ + 1,
                             !.ceremonial_details =
                                 IF payload.classificationReason # <<>>
                                 THEN Append(@, detail) ELSE @]
            ELSE [cc1 EXCEPT !.productive = @ + 1]
    IN  [m EXCEPT !.click_count = cc2]

\* the pushed entry left at the end, the list not sorted
InsertLast(list, e) == Append(list, e)

\* insert e behind the entries whose id is not smaller (what a stable
\* descending sort does with an entry pushed at the end)
InsertDesc(list, e) ==
    LET k == Cardinality({i \in 1..Len(list) : list[i].id >= e.id})
    IN  SubSeq(list, 1, k) \o <<e>> \o SubSeq(list, k + 1, Len(list))

\* Array.prototype.sort((a, b) => b.id - a.id), stable
RECURSIVE SortDesc(_)
SortDesc(list) ==
    IF list = <<>> THEN <<>>
    ELSE InsertDesc(SortDesc(SubSeq(list, 1, Len(list) - 1)), list[Len(list)])

\* Math.cos(Math.atan2(|dy|, 0)) is 6.1e-17, not 0: on a vertical approach
\* the width still contributes a positive amount to the effective width.
\* log2(1 / 6.123e-17) in milli-bits:
COS_HALF_PI_LOG2 == 53858

\* targetWidth > 0, with targetWidth = w|cos a| + h|sin a|
TargetWidthPositive(dx, dy, w, h) ==
    IF dy = 0 THEN w > 0
    ELSE w > 0 \/ h > 0

\* the index of difficulty computed from the target's width alone
FittsIdWidthOnly(dx, dy, w, h) ==
    Log2Milli(ISqrt(dx * dx + dy * dy) + w, w)

\* Math.log2(distance / targetWidth + 1) in milli-bits, for distance > 0
\* and targetWidth > 0; distance / targetWidth = d2 / (w|dx| + h|dy|)
FittsId(dx, dy, w, h) ==
    LET d2 == dx * dx + dy * dy
        wn == w * Abs(dx) + h * Abs(dy)
    IN  IF wn > 0 THEN Log2Milli(d2 + wn, wn)
        ELSE COS_HALF_PI_LOG2 + Log2Milli(ISqrt(d2) * 1024, w) - 10000

\* every computed index of difficulty taken as the new maximum
IsNewMaxAlways(id, max_id) == TRUE

\* if (id > m.fitts.max_id)
IsNewMax(id, max_id) == id > max_id

\* function computeFittsAndScanning(m, payload, clickTarget, recordingState)
computeFittsAndScanning(rs, payload, clickTarget) ==
    LET m == Rec(rs).metrics
        has == rs.lastClickPosition # <<>>
        dx == IF has THEN payload.x - rs.lastClickPosition[1].x ELSE 0
        dy == IF has THEN payload.y - rs.lastClickPosition[1].y ELSE 0
        distance == ISqrt(dx * dx + dy * dy)
        rect == payload.target[1].rect
        sd == m.scanning_distance
        sd1 == IF ~has THEN sd
               ELSE IF distance > sd.max_single_px
               THEN [sd EXCEPT !.cumulative_px = @ + distance,
                               !.max_single_px = distance,
                               !.max_single_from = OrStr(rs.lastClickTarget, S_unknown),
                               !.max_single_to = clickTarget]
               ELSE [sd EXCEPT !.cumulative_px = @ + distance]
        doFitts == has /\ TargetWidthPositive(dx, dy, rect.width, rect.height)
                       /\ distance > 0
        id == IF doFitts THEN FittsId(dx, dy, rect.width, rect.height) ELSE 0
        size == <<[w |-> rect.width, h |-> rect.height]>>
        f == m.fitts
        f1 == IF ~doFitts THEN f
              ELSE IF IsNewMax(id, f.max_id)
              THEN [f EXCEPT !.cumulative_id = @ + id,
                             !.max_id = id,
                             !.max_id_element = clickTarget,
                             !.max_id_distance_px = distance,
                             !.max_id_target_size = size]
              ELSE [f EXCEPT !.cumulative_id = @ + id]
        top == SortDesc(Append(f.top_3_hardest,
                               [element |-> clickTarget, id |-> id,
                                distance_px |-> distance, target_size |-> size]))
        f2 == IF ~doFitts THEN f1
              ELSE [f1 EXCEPT !.top_3_hardest = SubSeq(top, 1, Min(3, Len(top)))]
        movements == m.click_count.total - 1
        f3 == IF movements > 0
              THEN [f2 EXCEPT !.average_id = f2.cumulative_id \div movements]
              ELSE f2
        sd2 == IF movements > 0
               THEN [sd1 EXCEPT !.average_px = (sd1.cumulative_px * 1000) \div movements]
               ELSE sd1
    IN  [rs EXCEPT !.currentRecording[1].metrics.fitts = f3,
                   !.currentRecording[1].metrics.scanning_distance = sd2,
                   !.lastClickPosition = <<[x |-> payload.x, y |-> payload.y]>>,
                   !.lastClickTarget = clickTarget,
                   !.ids = IF doFitts THEN Append(@, id) ELSE @]

\* a log that keeps its first ACTION_LOG_MAX entries: slice(0, ACTION_LOG_MAX)
appendActionLogKeepOldest(recording, payload) ==
    LET log == Append(recording.action_log,
                      [type |-> payload.type,
                       timestamp |-> payload.timestamp,
                       target |-> ElLabel(payload.target[1]),
                       text |-> payload.target[1].innerText,
                       classification |->
                           IF payload.classification # "" THEN payload.classification
                           ELSE "productive"])
    IN  [recording EXCEPT !.action_log = SubSeq(log, 1, Min(ACTION_LOG_MAX, Len(log)))]

\* function appendActionLog(recording, payload)
appendActionLog(recording, payload) ==
    LET log == Append(recording.action_log,
                      [type |-> payload.type,
                       timestamp |-> payload.timestamp,
                       target |-> ElLabel(payload.target[1]),
                       text |-> payload.target[1].innerText,
                       classification |->
                           IF payload.classification # "" THEN payload.classification
                           ELSE "productive"])
    IN  [recording EXCEPT !.action_log =
            IF Len(log) > ACTION_LOG_MAX
            THEN SubSeq(log, Len(log) - ACTION_LOG_MAX + 1, Len(log))
            ELSE log]

\* function processClickEvent(recording, payload, recordingState), for a
\* payload with a target
processClickEvent(rs, payload) ==
    LET clickTarget == ClickLabel(payload)
        rs1 == [rs EXCEPT !.lastActionLabel = clickTarget,
                          !.currentRecording[1].metrics = classifyAndCount(@, payload)]
        rs2 == computeFittsAndScanning(rs1, payload, clickTarget)
    IN  [rs2 EXCEPT !.currentRecording[1] = appendActionLog(@, payload)]

\* a scroll processor that adds the event's total to the stored total
processScrollEventAccumulating(rs, payload) ==
    [rs EXCEPT !.currentRecording[1].metrics.scroll_distance =
        [total_px |-> @.total_px + payload.total_px,
         page_scroll_px |-> <<payload.page_scroll_px>>,
         container_scroll_px |-> <<payload.container_scroll_px>>,
         total_horizontal_px |->
             IF payload.total_horizontal_px = <<>> THEN <<0>>
             ELSE payload.total_horizontal_px,
         scroll_events |-> <<payload.scroll_events>>,
         heaviest_container |-> payload.heaviest_container]]

\* function processScrollEvent(recording, payload)
processScrollEvent(rs, payload) ==
    [rs EXCEPT !.currentRecording[1].metrics.scroll_distance =
        [total_px |-> payload.total_px,
         page_scroll_px |-> <<payload.page_scroll_px>>,
         container_scroll_px |-> <<payload.container_scroll_px>>,
         total_horizontal_px |->
             IF payload.total_horizontal_px = <<>> THEN <<0>>
             ELSE payload.total_horizontal_px,
         scroll_events |-> <<payload.scroll_events>>,
         heaviest_container |-> payload.heaviest_container]]

\* a keyboard processor that builds the metrics object anew around the
\* keyboard groups
processKeyboardEventFreshMetrics(rs, payload) ==
    [rs EXCEPT !.lastActionLabel = S_keyboard,
               !.currentRecording[1].metrics =
                   [EmptyMetrics EXCEPT
                      !.time_on_task = Rec(rs).metrics.time_on_task,
                      !.context_switches =
                          [total |-> payload.context_switches.total,
                           ratio |-> payload.context_switches.ratio,
                           longest_keyboard_streak |->
                               <<payload.context_switches.longest_keyboard_streak>>,
                           longest_mouse_streak |->
                               <<payload.context_switches.longest_mouse_streak>>],
                      !.shortcut_coverage.shortcuts_used =
                          payload.shortcut_coverage.shortcuts_used,
                      !.typing_ratio = payload.typing_ratio]]

\* function processKeyboardEvent(recording, payload, recordingState)
processKeyboardEvent(rs, payload) ==
    [rs EXCEPT !.lastActionLabel = S_keyboard,
               !.currentRecording[1].metrics.context_switches =
                   [total |-> payload.context_switches.total,
                    ratio |-> payload.context_switches.ratio,
                    longest_keyboard_streak |->
                        <<payload.context_switches.longest_keyboard_streak>>,
                    longest_mouse_streak |->
                        <<payload.context_switches.longest_mouse_streak>>],
               !.currentRecording[1].metrics.shortcut_coverage.shortcuts_used =
                   payload.shortcut_coverage.shortcuts_used,
               !.currentRecording[1].metrics.typing_ratio = payload.typing_ratio]

\* function processDepthEvent(recording, payload)
processDepthEvent(rs, payload) ==
    [rs EXCEPT !.currentRecording[1].metrics.navigation_depth = payload.navigation_depth]

\* function processDensityEvent(recording, payload)
processDensityEvent(rs, payload) ==
    LET id == payload.information_density
    IN  [rs EXCEPT !.currentRecording[1].metrics.information_density =
            [method |-> @.method,
             average_content_ratio |-> id.average_content_ratio,
             min_content_ratio |-> id.min_content_ratio,
             max_content_ratio |-> id.max_content_ratio,
             min_content_context |-> id.min_content_context,
             max_content_context |-> id.max_content_context]]

\* function processWaitEvent(recording, payload)
processWaitEvent(rs, payload) ==
    [rs EXCEPT !.currentRecording[1].metrics.time_on_task.application_wait_ms =
        payload.application_wait_ms]


\* ------------------------------------------------------------------
\* handleEventInternal: the router, cut at its two awaits
\* ------------------------------------------------------------------
\* the router without its guard
ShouldDropNever(rs) == FALSE

\* if (!recordingState?.isRecording || !recordingState.currentRecording) return;
ShouldDrop(rs) == ~rs.isRecording \/ rs.currentRecording = <<>>

\* const now = payload.timestamp || Date.now()
EventTime(payload, dateNow) ==
    IF payload.type = "click" /\ payload.timestamp # 0 THEN payload.timestamp
    ELSE dateNow

\* the idle gap detector run for every event
isUserActionAlways(payload) == TRUE

isUserAction(payload) ==
    payload.type \in {"click", "keyboard_update", "scroll_update"}

\* a TypeError is thrown while the event is processed: a click without a
\* target (payload.target.tagName), or no recording object to update
Throws(rs, payload) ==
    rs.currentRecording = <<>>
        \/ (payload.type = "click" /\ payload.target = <<>>)

\* the object read from the store as the handler has mutated it when the
\* TypeError is thrown: detectIdleGap has run, processClickEvent has set
\* lastActionLabel and classifyAndCount has incremented total
ThrownState(rs, payload, now) ==
    IF rs.currentRecording = <<>> THEN rs
    ELSE LET rs1 == detectIdleGap(rs, payload, now)
         IN  [rs1 EXCEPT !.lastActionLabel = ClickLabel(payload),
                         !.currentRecording[1].metrics.click_count.total = @ + 1]

\* a handler that saves the object it was working on when it fails
AfterThrowSaved(st, thrown) == [st EXCEPT !.recordingState = thrown]

\* the storage after the throw: handleEventInternal is left before its
\* storage.set, and the object it mutated was a copy that storage.get made
AfterThrow(st, thrown) == st

\* the processor's return value (stateChanged)
StateChanged(rs, payload) ==
    CASE payload.type = "depth_update" ->
            LET prev == Rec(rs).metrics.navigation_depth
                nd == payload.navigation_depth
            IN  prev.max_depth # nd.max_depth
                    \/ prev.total_depth_changes # nd.total_depth_changes
      [] payload.type = "density_update" ->
            Rec(rs).metrics.information_density.average_content_ratio
                # payload.information_density.average_content_ratio
      [] payload.type = "wait_update" ->
            Rec(rs).metrics.time_on_task.application_wait_ms
                # payload.application_wait_ms
      [] payload.type \in {"click", "keyboard_update", "scroll_update"} -> TRUE
      [] OTHER -> FALSE

\* the switch over payload.type
Dispatch(rs, payload) ==
    CASE payload.type = "click"           -> processClickEvent(rs, payload)
      [] payload.type = "scroll_update"   -> processScrollEvent(rs, payload)
      [] payload.type = "keyboard_update" -> processKeyboardEvent(rs, payload)
      [] payload.type = "depth_update"    -> processDepthEvent(rs, payload)
      [] payload.type = "density_update"  -> processDensityEvent(rs, payload)
      [] payload.type = "wait_update"     -> processWaitEvent(rs, payload)
      [] OTHER                            -> rs

\* idle gap detection followed by the per-type processor, for an event
\* that does not throw
Processed(rs, payload, now) ==
    Dispatch(IF isUserAction(payload) THEN detectIdleGap(rs, payload, now) ELSE rs,
             payload)

\* stats whose composite is read from the report's composite_score field
StatsFromField(m) ==
    [clicks |-> m.click_count.total,
     depth |-> m.navigation_depth.max_depth,
     scroll |-> m.scroll_distance.total_px,
     switches |-> m.context_switches.total,
     composite |-> Round1(m.composite_score),
     fitts |-> round2(m.fitts.average_id),
     density |-> round2(m.information_density.average_content_ratio),
     shortcuts |-> m.shortcut_coverage.shortcuts_used,
     typing |-> round2(m.typing_ratio.ratio),
     scanAvg |-> RoundMilli(m.scanning_distance.average_px),
     waitMs |-> m.time_on_task.application_wait_ms]

\* the stats record written next to the recording state
Stats(m) ==
    [clicks |-> m.click_count.total,
     depth |-> m.navigation_depth.max_depth,
     scroll |-> m.scroll_distance.total_px,
     switches |-> m.context_switches.total,
     composite |-> Round1(computeComposite(m)),
     fitts |-> round2(m.fitts.average_id),
     density |-> round2(m.information_density.average_content_ratio),
     shortcuts |-> m.shortcut_coverage.shortcuts_used,
     typing |-> round2(m.typing_ratio.ratio),
     scanAvg |-> RoundMilli(m.scanning_distance.average_px),
     waitMs |-> m.time_on_task.application_wait_ms]

\* ------------------------------------------------------------------
\* stopRecording: the finalized report
\* ------------------------------------------------------------------
RECURSIVE SumGaps(_)
SumGaps(gaps) ==
    IF gaps = <<>> THEN 0
    ELSE gaps[1].gap_ms + SumGaps(SubSeq(gaps, 2, Len(gaps)))

\* the most recent gap taken for the longest one
LongestGapLast(gaps, max) == IF gaps = <<>> THEN max ELSE gaps[Len(gaps)]

\* gaps.reduce((max, g) => g.gap_ms > max.gap_ms ? g : max, gaps[0])
RECURSIVE LongestGap(_, _)
LongestGap(gaps, max) ==
    IF gaps = <<>> THEN max
    ELSE LongestGap(SubSeq(gaps, 2, Len(gaps)),
                    IF gaps[1].gap_ms > max.gap_ms THEN gaps[1] ELSE max)

\* the report as stopRecording finalizes it, duration ms after the start
FinalReport(report, duration) ==
    LET gaps == report.metrics.time_on_task.idle_gaps
        totalGapMs == SumGaps(gaps)
        tot == [report.metrics.time_on_task EXCEPT
                    !.total_ms = duration,
                    !.idle_ms = <<totalGapMs>>,
                    !.active_ms = <<duration - totalGapMs>>,
                    !.longest_idle_ms =
                        IF gaps # <<>> THEN <<LongestGap(gaps, gaps[1]).gap_ms>> ELSE @,
                    !.longest_idle_after =
                        IF gaps # <<>> THEN LongestGap(gaps, gaps[1]).after_action ELSE @]
        m1 == [report.metrics EXCEPT !.time_on_task = tot]
    IN  [report EXCEPT !.metadata.duration_ms = duration,
                       !.metrics = [m1 EXCEPT !.composite_score = computeComposite(m1)]]


\* ------------------------------------------------------------------
\* State
\* ------------------------------------------------------------------
VARIABLES
    store,              \* chrome.storage.local: recordingState, stats, benchmarkReport
    clock,              \* Date.now()
    isTransitioning,    \* the re-entrancy flag of the message listener
    feedCounter,        \* feed event state, reset by startRecording
    lastScrollTotal,
    lastScrollFeedTime,
    tasks,              \* the links of the eventQueue promise chain, oldest first
    calls,              \* startRecording / stopRecording / onCommand invocations
    outbox,             \* RECORDING_STARTED / RECORDING_STOPPED messages sent
    feed,               \* FEED_EVENT messages sent
    sessionRuns,        \* side panel: the reports of the finished runs
    downloads,          \* side panel: the files handed to chrome.downloads
    warnings,           \* side panel: console.warn lines
    recordingClass,     \* side panel: document.body has the class 'recording'
    transientState,     \* side panel: 'STARTING' | 'STOPPING' | null
    actionBtnDisabled,  \* side panel: actionBtn.disabled
    viewportSelected,   \* side panel: resSelect.value !== ''
    updates,            \* side panel: the updateUI invocations
    delivered,          \* runtime messages handed to the side panel's listener
    panelSent,          \* START_RECORDING / STOP_RECORDING messages of the panel
    received            \* how many of them the worker's listener was handed

vars == <<store, clock, isTransitioning, feedCounter, lastScrollTotal,
          lastScrollFeedTime, tasks, calls, outbox, feed,
          sessionRuns, downloads, warnings, recordingClass, transientState,
          actionBtnDisabled, viewportSelected, updates, delivered, panelSent,
          received>>

machineVars == <<recordingClass, transientState, actionBtnDisabled,
                 viewportSelected, updates, delivered, panelSent, received>>

panelVars == <<sessionRuns, downloads, warnings, machineVars>>

\* the side panel as init leaves it on a fresh profile: COLD_START, no
\* viewport chosen, nothing sent or received
MachineInit ==
    /\ recordingClass = FALSE
    /\ transientState = <<>>
    /\ actionBtnDisabled = TRUE
    /\ viewportSelected = FALSE
    /\ updates = <<>>
    /\ delivered = 0
    /\ panelSent = <<>>
    /\ received = 0

\* let sessionRuns: BenchmarkReport[] = []; nothing exported, nothing logged
PanelInit ==
    /\ sessionRuns = <<>>
    /\ downloads = <<>>
    /\ warnings = <<>>
    /\ MachineInit

workerVars == <<isTransitioning, calls, outbox>>

feedVars == <<feedCounter, lastScrollTotal, lastScrollFeedTime, feed>>

\* chrome.runtime.onInstalled: storage holds the initial state only
Init ==
    /\ store = [recordingState |-> initialState, stats |-> <<>>,
                benchmarkReport |-> <<>>]
    /\ clock = T0
    /\ isTransitioning = FALSE
    /\ feedCounter = 0
    /\ lastScrollTotal = 0
    /\ lastScrollFeedTime = 0
    /\ tasks = <<>>
    /\ calls = <<>>
    /\ outbox = <<>>
    /\ feed = <<>>
    /\ PanelInit

\* the wall clock advances between two turns of the event loop, by one of
\* steps and not beyond limit
TickBy(steps, limit) ==
    /\ \E d \in steps :
          /\ clock + d <= limit
          /\ clock' = clock + d
    /\ UNCHANGED <<store, workerVars, feedVars, tasks, panelVars>>

\* ------------------------------------------------------------------
\* The event queue
\* ------------------------------------------------------------------
InFlight == {"read", "written"}

\* a settled link keeps its outcome only
Settled(status) ==
    [payload |-> [type |-> "none"], status |-> status, local |-> <<>>, now |-> 0]

\* a link without its .catch: a task that threw leaves the chain rejected
LinkFulfilledNoCatch(t) == t.status = "done"

\* the link's promise is fulfilled: the task returned, or threw and the
\* .catch at the end of the link logged the error
LinkFulfilled(t) == t.status \in {"done", "failed"}

\* handleEvent without the chain: handleEventInternal(payload) is called at once
CanStartUnchained(i) == tasks[i].status = "pending"

\* eventQueue.then(...): the callback of link i runs once link i-1 is fulfilled
CanStart(i) ==
    /\ tasks[i].status = "pending"
    /\ \A j \in 1..(i - 1) : LinkFulfilled(tasks[j])

\* function handleEvent(payload), called by the onMessage listener for an
\* EVENT_CAPTURED message with a payload of P, at most max times
HandleEventOf(P, max) ==
    /\ Len(tasks) < max
    /\ \E p \in P :
          tasks' = Append(tasks, [payload |-> p, status |-> "pending",
                                  local |-> <<>>, now |-> 0])
    /\ UNCHANGED <<store, clock, workerVars, feedVars, panelVars>>

\* handleEventInternal up to its first await: storage.get is issued
TaskRead(i) ==
    /\ CanStart(i)
    /\ tasks' = [tasks EXCEPT ![i].status = "read",
                              ![i].local = <<store.recordingState>>]
    /\ UNCHANGED <<store, clock, workerVars, feedVars, panelVars>>

\* handleEventInternal from the storage.get result to storage.set
TaskProcess(i) ==
    /\ tasks[i].status = "read"
    /\ LET rs == tasks[i].local[1]
           p == tasks[i].payload
           now == EventTime(p, clock)
       IN  IF ShouldDrop(rs)
           THEN /\ tasks' = [tasks EXCEPT ![i] = Settled("done")]
                /\ UNCHANGED store
           ELSE IF Throws(rs, p)
           THEN /\ tasks' = [tasks EXCEPT ![i] = Settled("failed")]
                /\ store' = AfterThrow(store, ThrownState(rs, p, now))
           ELSE IF ~StateChanged(rs, p)
           THEN /\ tasks' = [tasks EXCEPT ![i] = Settled("done")]
                /\ UNCHANGED store
           ELSE LET rs1 == [Processed(rs, p, now) EXCEPT !.applied = @ \cup {i}]
                IN  /\ store' = [store EXCEPT
                                    !.recordingState = rs1,
                                    !.stats = <<Stats(Rec(rs1).metrics)>>]
                    /\ tasks' = [tasks EXCEPT ![i].status = "written",
                                              ![i].local = <<rs1>>,
                                              ![i].now = now]
    /\ UNCHANGED <<clock, workerVars, feedVars, panelVars>>

\* the feed entries buildFeedEvent sends for one event: the last idle gap
\* if it is not marked as emitted, then the entry of the event (none for a
\* throttled scroll). Only id (doubled, the gap entry has id - 0.5), ts and
\* type are carried; labels and metricUpdates are display strings.
FeedEntries(rs, p, ts, id, dateNow, scrollFeedTime) ==
    LET gaps == Rec(rs).metrics.time_on_task.idle_gaps
        gapEntry == IF gaps # <<>> /\ ~gaps[Len(gaps)].emitted
                    THEN <<[id2 |-> 2 * id - 1, ts |-> ts, type |-> "gap"]>>
                    ELSE <<>>
        throttled == p.type = "scroll_update"
                        /\ dateNow - scrollFeedTime < SCROLL_FEED_THROTTLE_MS
        evEntry == IF throttled THEN <<>>
                   ELSE <<[id2 |-> 2 * id, ts |-> ts, type |-> p.type]>>
    IN  gapEntry \o evEntry

\* handleEventInternal after storage.set: buildFeedEvent and the broadcast
TaskFeed(i) ==
    /\ tasks[i].status = "written"
    /\ LET rs == tasks[i].local[1]
           p == tasks[i].payload
           id == feedCounter + 1
           sent == p.type = "scroll_update"
                      /\ clock - lastScrollFeedTime >= SCROLL_FEED_THROTTLE_MS
       IN  /\ feedCounter' = id
           /\ feed' = feed \o FeedEntries(rs, p, tasks[i].now, id, clock,
                                          lastScrollFeedTime)
           /\ lastScrollFeedTime' = IF sent THEN clock ELSE lastScrollFeedTime
           /\ lastScrollTotal' = IF sent THEN p.total_px ELSE lastScrollTotal
    /\ tasks' = [tasks EXCEPT ![i] = Settled("done")]
    /\ UNCHANGED <<store, clock, workerVars, panelVars>>

\* ------------------------------------------------------------------
\* Recording lifecycle
\* ------------------------------------------------------------------
NewCall(kind, guarded, pc, snap) ==
    [kind |-> kind, guarded |-> guarded, pc |-> pc, snap |-> snap,
     wrote |-> FALSE]

\* a call that has returned
Returned(c) == [calls[c] EXCEPT !.pc = "done", !.snap = <<>>]

\* .finally(() => { isTransitioning = false; }) of a call made by the
\* message listener
Finally(c) == IF calls[c].guarded THEN FALSE ELSE isTransitioning

\* onMessage: START_RECORDING && !isTransitioning; startRecording runs up to
\* its first await (tabs.query)
MsgStart ==
    /\ Len(calls) < MaxCalls
    /\ ~isTransitioning
    /\ isTransitioning' = TRUE
    /\ calls' = Append(calls, NewCall("start", TRUE, "query", <<>>))
    /\ UNCHANGED <<store, clock, feedVars, tasks, outbox, panelVars>>

\* onMessage: STOP_RECORDING && !isTransitioning; stopRecording runs up to
\* its first await (storage.get)
MsgStop ==
    /\ Len(calls) < MaxCalls
    /\ ~isTransitioning
    /\ isTransitioning' = TRUE
    /\ calls' = Append(calls, NewCall("stop", TRUE, "get", <<store.recordingState>>))
    /\ UNCHANGED <<store, clock, feedVars, tasks, outbox, panelVars>>

\* the toggle-recording commands that are or were in progress
Commands == {c \in 1..Len(calls) : ~calls[c].guarded}

\* commands.onCommand 'toggle-recording', up to its await (storage.get)
Command ==
    /\ Len(calls) < MaxCalls
    /\ Cardinality(Commands) < MaxCommands
    /\ calls' = Append(calls, NewCall("toggle", FALSE, "get", <<store.recordingState>>))
    /\ UNCHANGED <<store, clock, isTransitioning, feedVars, tasks, outbox, panelVars>>

\* the command listener after storage.get: stopRecording() or
\* startRecording(), each running up to its first await
CommandDispatch(c) ==
    /\ calls[c].kind = "toggle"
    /\ calls[c].pc = "get"
    /\ calls' = [calls EXCEPT ![c] =
                    IF calls[c].snap[1].isRecording
                    THEN NewCall("stop", FALSE, "get", <<store.recordingState>>)
                    ELSE NewCall("start", FALSE, "query", <<>>)]
    /\ UNCHANGED <<store, clock, isTransitioning, feedVars, tasks, outbox, panelVars>>

\* a start that carries the Fitts and scanning aggregates of the last
\* finalized report over into the new session
StartItemsCarryOver(now) ==
    [recordingState |->
        IF store.benchmarkReport = <<>> THEN StartState(now)
        ELSE [StartState(now) EXCEPT
                !.currentRecording[1].metrics.fitts =
                    store.benchmarkReport[1].metrics.fitts,
                !.currentRecording[1].metrics.scanning_distance =
                    store.benchmarkReport[1].metrics.scanning_distance],
     stats |-> <<>>, benchmarkReport |-> <<>>]

\* a storage.set of the new state only, stats and report left in place
StartItemsKeep(now) == [store EXCEPT !.recordingState = StartState(now)]

\* the items of startRecording's storage.set at wall-clock time now
StartItems(now) ==
    [recordingState |-> StartState(now), stats |-> <<>>, benchmarkReport |-> <<>>]

\* startRecording after tabs.query: the new state is built, the feed state
\* is reset, storage.set is issued
StartWrite(c) ==
    /\ calls[c].kind = "start"
    /\ calls[c].pc = "query"
    /\ store' = StartItems(clock)
    /\ feedCounter' = 0
    /\ lastScrollTotal' = 0
    /\ lastScrollFeedTime' = 0
    /\ calls' = [calls EXCEPT ![c].pc = "set", ![c].wrote = TRUE]
    /\ UNCHANGED <<clock, isTransitioning, tasks, outbox, feed, panelVars>>

\* startRecording after storage.set: content script, badge and side panel
\* are notified
StartNotify(c) ==
    /\ calls[c].kind = "start"
    /\ calls[c].pc = "set"
    /\ outbox' = outbox \o <<[to |-> "tab", type |-> "RECORDING_STARTED"],
                             [to |-> "runtime", type |-> "RECORDING_STARTED"]>>
    /\ calls' = [calls EXCEPT ![c] = Returned(c)]
    /\ isTransitioning' = Finally(c)
    /\ UNCHANGED <<store, clock, feedVars, tasks, panelVars>>

\* the notifications sent before the report is written
StopOrderNotifyFirst == <<"notify", "write">>

\* the order in which stopRecording, once it has found a recording in
\* progress, awaits its two effects
StopOrder == <<"write", "notify">>

\* stopRecording without its guard
StopNeverReturnsEarly(rs) == FALSE

\* if (!recordingState?.isRecording) return;
StopReturnsEarly(rs) == ~rs.isRecording

\* the items of stopRecording's storage.set for the state rs it read
StopItems(rs, dateNow) ==
    LET duration == dateNow - (IF rs.startTime # 0 THEN rs.startTime ELSE dateNow)
    IN  [recordingState |-> initialState,
         benchmarkReport |-> IF rs.currentRecording # <<>>
                             THEN <<FinalReport(Rec(rs), duration)>> ELSE <<>>,
         stats |-> <<>>]

StoppedMessages ==
    <<[to |-> "tab", type |-> "RECORDING_STOPPED"],
      [to |-> "runtime", type |-> "RECORDING_STOPPED"]>>

\* one of the two effects of stopRecording
StopEffect(effect, rs) ==
    IF effect = "write"
    THEN /\ store' = StopItems(rs, clock)
         /\ outbox' = outbox
    ELSE /\ outbox' = outbox \o StoppedMessages
         /\ store' = store

\* stopRecording after storage.get: return if nothing is recorded, otherwise
\* finalize and run the first effect
StopCheck(c) ==
    /\ calls[c].kind = "stop"
    /\ calls[c].pc = "get"
    /\ IF StopReturnsEarly(calls[c].snap[1])
       THEN /\ calls' = [calls EXCEPT ![c] = Returned(c)]
            /\ isTransitioning' = Finally(c)
            /\ UNCHANGED <<store, outbox>>
       ELSE /\ StopEffect(StopOrder[1], calls[c].snap[1])
            /\ calls' = [calls EXCEPT ![c].pc = "second",
                                      ![c].wrote = (StopOrder[1] = "write")]
            /\ UNCHANGED isTransitioning
    /\ UNCHANGED <<clock, feedVars, tasks, panelVars>>

\* stopRecording after its first effect: the second effect, then return
StopFinish(c) ==
    /\ calls[c].kind = "stop"
    /\ calls[c].pc = "second"
    /\ StopEffect(StopOrder[2], calls[c].snap[1])
    /\ calls' = [calls EXCEPT ![c] = Returned(c)]
    /\ isTransitioning' = Finally(c)
    /\ UNCHANGED <<clock, feedVars, tasks, panelVars>>

\* ------------------------------------------------------------------
\* Specifications
\* ------------------------------------------------------------------
\* the payloads of the worker specification: a click, a click without a
\* target, one keyboard update and one depth update
CorePayloads(ts) ==
    { p \in ClickPayloads(ts) : p.classification = "productive" }
        \cup KeyboardPayloads \cup DepthPayloads

HandleEvent == HandleEventOf(CorePayloads(clock), MaxTasks)

Tick == TickBy({IDLE_GAP_MS + 1}, T0 + MaxTicks * (IDLE_GAP_MS + 1))

TaskStep == \E i \in 1..Len(tasks) : TaskRead(i) \/ TaskProcess(i) \/ TaskFeed(i)

CallStep ==
    \E c \in 1..Len(calls) :
        CommandDispatch(c) \/ StartWrite(c) \/ StartNotify(c)
            \/ StopCheck(c) \/ StopFinish(c)

\* Spec: the whole worker, lifecycle calls and events in any interleaving
Next ==
    \/ Tick
    \/ HandleEvent
    \/ MsgStart
    \/ MsgStop
    \/ Command
    \/ TaskStep
    \/ CallStep

Spec == Init /\ [][Next]_vars

\* SessionSpec: one recording session, started at T0, and its events
SessionInit ==
    /\ store = StartItems(T0)
    /\ clock = T0
    /\ isTransitioning = FALSE
    /\ feedCounter = 0
    /\ lastScrollTotal = 0
    /\ lastScrollFeedTime = 0
    /\ tasks = <<>>
    /\ calls = <<>>
    /\ outbox = <<[to |-> "tab", type |-> "RECORDING_STARTED"],
                  [to |-> "runtime", type |-> "RECORDING_STARTED"]>>
    /\ feed = <<>>
    /\ PanelInit

HandleAnyEvent == HandleEventOf(Payloads(clock), MaxEvents)

SessionTick ==
    TickBy({IDLE_GAP_MS, IDLE_GAP_MS + 1}, T0 + MaxSessionTicks * (IDLE_GAP_MS + 1))

SessionNext ==
    \/ SessionTick
    \/ HandleAnyEvent
    \/ TaskStep

SessionSpec == SessionInit /\ [][SessionNext]_vars

\* StopSpec: one recording session, its events, and stopRecording called
\* at any moment of it
StopTick == TickBy({IDLE_GAP_MS + 1}, T0 + MaxStopTicks * (IDLE_GAP_MS + 1))

StopStep == \E c \in 1..Len(calls) : StopCheck(c) \/ StopFinish(c)

\* the payloads of the stop specification: the first click, one keyboard
\* update and one scroll update
StopPayloads(ts) ==
    { p \in ClickPayloads(ts) : p.target # <<>> /\ p.target[1].innerText = <<"A">>
                                    /\ p.classification = "productive" }
        \cup KeyboardPayloads \cup ScrollPayloads

HandleSessionEvent == HandleEventOf(StopPayloads(clock), MaxEvents)

\* the side panel's STOP_RECORDING message, sent once
StopOnce == calls = <<>> /\ MsgStop

StopNext ==
    \/ StopTick
    \/ HandleSessionEvent
    \/ TaskStep
    \/ StopOnce
    \/ StopStep

StopSpec == SessionInit /\ [][StopNext]_vars

\* FailSpec: one recording session whose clicks come with or without a
\* target, and stopRecording called at any moment of it
FailPayloads(ts) ==
    { p \in ClickPayloads(ts) :
        p.classification = "productive" /\ p.classificationReason = <<>> }

HandleFailingEvent == HandleEventOf(FailPayloads(clock), MaxEvents)

FailNext ==
    \/ StopTick
    \/ HandleFailingEvent
    \/ TaskStep
    \/ StopOnce
    \/ StopStep

FailSpec == SessionInit /\ [][FailNext]_vars

\* RestartSpec: sessions started and stopped by the side panel's messages,
\* with clicks on two targets, without the wall clock
RestartPayloads(ts) ==
    { p \in ClickPayloads(ts) :
        p.target # <<>> /\ p.target[1].innerText \in {<<"A">>, <<"B">>}
            /\ p.classification \in {"productive", "wasted"} }

HandleClick == HandleEventOf(RestartPayloads(clock), MaxRestartEvents)

LifecycleStep ==
    \E c \in 1..Len(calls) :
        StartWrite(c) \/ StartNotify(c) \/ StopCheck(c) \/ StopFinish(c)

RestartNext ==
    \/ HandleClick
    \/ TaskStep
    \/ MsgStart
    \/ MsgStop
    \/ LifecycleStep

RestartSpec == Init /\ [][RestartNext]_vars

\* ClickSpec: one recording session and clicks on four targets: A 80x32 at
\* (100,100), B 40x20 at (500,100), and at (500,400) a 0x0 and a 30x0 one
GeometryPayloads(ts) ==
    { p \in ClickPayloads(ts) :
        p.target # <<>> /\ p.classification \in {"productive", "wasted", "ceremonial", ""} }

HandleGeometryClick == HandleEventOf(GeometryPayloads(clock), MaxClicks)

ClickNext ==
    \/ HandleGeometryClick
    \/ TaskStep

ClickSpec == SessionInit /\ [][ClickNext]_vars

\* LogSpec: a recording session in which LogPrefill clicks on A have been
\* handled one after the other (their links of the queue are settled and
\* gone), and the clicks that follow
LogPrefill == ACTION_LOG_MAX - 1

LogClick(ts) ==
    ClickPayload(ts, 100, 100, "productive", <<>>,
                 <<Target(S_BUTTON, <<>>, <<"A">>, 80, 32)>>)

\* the RecordingState rs after n more events, each a LogClick at time T0,
\* were handled one after the other
RECURSIVE AfterClicksFrom(_, _)
AfterClicksFrom(rs, n) ==
    IF ~rs.isRecording \/ n = 0 THEN rs
    ELSE IF n = 1 THEN Processed(rs, LogClick(T0), T0)
    ELSE AfterClicksFrom(AfterClicksFrom(rs, n \div 2), n - n \div 2)

AfterClicks(n) == AfterClicksFrom(StartState(T0), n)

LogInit ==
    /\ store = [recordingState |-> AfterClicks(LogPrefill),
                stats |-> <<Stats(Rec(AfterClicks(LogPrefill)).metrics)>>,
                benchmarkReport |-> <<>>]
    /\ clock = T0
    /\ isTransitioning = FALSE
    /\ feedCounter = LogPrefill
    /\ lastScrollTotal = 0
    /\ lastScrollFeedTime = 0
    /\ tasks = <<>>
    /\ calls = <<>>
    /\ outbox = <<[to |-> "tab", type |-> "RECORDING_STARTED"],
                  [to |-> "runtime", type |-> "RECORDING_STARTED"]>>
    /\ feed = [k \in 1..LogPrefill |-> [id2 |-> 2 * k, ts |-> T0, type |-> "click"]]
    /\ PanelInit

HandleLogClick == HandleEventOf(RestartPayloads(clock), MaxLogClicks)

LogNext ==
    \/ HandleLogClick
    \/ TaskStep

LogSpec == LogInit /\ [][LogNext]_vars

\* DetailSpec: one recording session and clicks of every classification,
\* with and without a classificationReason
DetailPayloads(ts) ==
    { ClickPayload(ts, 100, 100, cls, reason,
                   <<Target(S_BUTTON, <<"b">>, <<"B">>, 40, 20)>>) :
        cls \in {"productive", "wasted", "ceremonial"},
        reason \in {<<>>, <<"r">>} }

HandleDetailClick == HandleEventOf(DetailPayloads(clock), MaxDetailClicks)

DetailNext ==
    \/ HandleDetailClick
    \/ TaskStep

DetailSpec == SessionInit /\ [][DetailNext]_vars

\* LatestSpec: one recording session and scroll and keyboard updates with
\* two different sets of values each
LaterScrollPayloads ==
    { [type |-> "scroll_update", total_px |-> 3500, page_scroll_px |-> 3000,
       container_scroll_px |-> 500, total_horizontal_px |-> <<40>>,
       scroll_events |-> 25, heaviest_container |-> <<>>] }

LaterKeyboardPayloads ==
    { [type |-> "keyboard_update",
       context_switches |-> [total |-> 7, ratio |-> 350,
                             longest_keyboard_streak |-> 9,
                             longest_mouse_streak |-> 4],
       shortcut_coverage |-> [shortcuts_used |-> 2],
       typing_ratio |-> [free_text_inputs |-> 3, constrained_inputs |-> 2,
                         ratio |-> 600, free_text_fields |-> <<"N", "M">>]] }

UpdatePayloads ==
    ScrollPayloads \cup LaterScrollPayloads
        \cup KeyboardPayloads \cup LaterKeyboardPayloads

HandleUpdate == HandleEventOf(UpdatePayloads, MaxUpdates)

LatestNext ==
    \/ HandleUpdate
    \/ TaskStep

LatestSpec == SessionInit /\ [][LatestNext]_vars

\* TravelSpec: one recording session of a worker that also handles the
\* mouse_travel_update events of the MouseTravelCollector. The handler is
\* the Cursor Travel Processor of the specification (section 4.7).
TravelPayloads ==
    { [type |-> "mouse_travel_update", total_px |-> 800, idle_travel_px |-> 100,
       move_events |-> 50, path_efficiency |-> <<>>],
      [type |-> "mouse_travel_update", total_px |-> 1200, idle_travel_px |-> 300,
       move_events |-> 80, path_efficiency |-> <<100>>],
      [type |-> "mouse_travel_update", total_px |-> 0, idle_travel_px |-> 0,
       move_events |-> 0, path_efficiency |-> <<900>>] }

\* metrics.mouseTravel of a report created empty
EmptyMouseTravel ==
    [total_px |-> 0, idle_travel_px |-> 0, move_events |-> 0,
     path_efficiency |-> <<>>]

\* the metrics m with the group mouse_travel added
WithMouseTravel(m) ==
    [click_count |-> m.click_count, time_on_task |-> m.time_on_task,
     fitts |-> m.fitts, information_density |-> m.information_density,
     context_switches |-> m.context_switches,
     shortcut_coverage |-> m.shortcut_coverage,
     typing_ratio |-> m.typing_ratio, navigation_depth |-> m.navigation_depth,
     scanning_distance |-> m.scanning_distance,
     scroll_distance |-> m.scroll_distance,
     composite_score |-> m.composite_score,
     mouse_travel |-> EmptyMouseTravel]

\* pathEfficiency = scanningDistance.cumulativePx / totalPx when totalPx > 0,
\* else null; in thousandths
PathEfficiency(cumulative_px, total_px) ==
    IF total_px > 0 THEN <<(cumulative_px * 1000) \div total_px>> ELSE <<>>

\* the Cursor Travel Processor
processMouseTravelEvent(rs, payload) ==
    [rs EXCEPT !.currentRecording[1].metrics.mouse_travel =
        [total_px |-> payload.total_px,
         idle_travel_px |-> payload.idle_travel_px,
         move_events |-> payload.move_events,
         path_efficiency |->
            PathEfficiency(Rec(rs).metrics.scanning_distance.cumulative_px,
                           payload.total_px)]]

TravelInit ==
    /\ store = [StartItems(T0) EXCEPT
                  !.recordingState.currentRecording[1].metrics = WithMouseTravel(@)]
    /\ clock = T0
    /\ isTransitioning = FALSE
    /\ feedCounter = 0
    /\ lastScrollTotal = 0
    /\ lastScrollFeedTime = 0
    /\ tasks = <<>>
    /\ calls = <<>>
    /\ outbox = <<[to |-> "tab", type |-> "RECORDING_STARTED"],
                  [to |-> "runtime", type |-> "RECORDING_STARTED"]>>
    /\ feed = <<>>
    /\ PanelInit

HandleTravelOrClick ==
    HandleEventOf(TravelPayloads \cup RestartPayloads(clock), MaxTravelEvents)

\* the event handler from the storage.get result to storage.set, for a
\* cursor-travel event: no idle gap detection, the processor, the write
TravelProcess(i) ==
    /\ tasks[i].status = "read"
    /\ tasks[i].payload.type = "mouse_travel_update"
    /\ LET rs == tasks[i].local[1]
           p == tasks[i].payload
       IN  IF ShouldDrop(rs)
           THEN /\ tasks' = [tasks EXCEPT ![i] = Settled("done")]
                /\ UNCHANGED store
           ELSE LET rs1 == [processMouseTravelEvent(rs, p) EXCEPT !.applied = @ \cup {i}]
                IN  /\ store' = [store EXCEPT
                                    !.recordingState = rs1,
                                    !.stats = <<Stats(Rec(rs1).metrics)>>]
                    /\ tasks' = [tasks EXCEPT ![i].status = "written",
                                              ![i].local = <<rs1>>,
                                              ![i].now = clock]
    /\ UNCHANGED <<clock, workerVars, feedVars, panelVars>>

TravelTaskStep ==
    \E i \in 1..Len(tasks) :
        \/ TaskRead(i)
        \/ tasks[i].payload.type # "mouse_travel_update" /\ TaskProcess(i)
        \/ TravelProcess(i)
        \/ TaskFeed(i)

TravelNext ==
    \/ HandleTravelOrClick
    \/ TravelTaskStep

TravelSpec == TravelInit /\ [][TravelNext]_vars

\* FlushSpec: one recording session, its events, stopRecording called once,
\* and the content script that detaches its collectors when the
\* RECORDING_STOPPED message reaches the tab
\* KeyboardCollector.detach(): the streaks are finalized and one last
\* keyboard update is sent; the message is marked as received by the
\* content script
DetachFlush ==
    /\ \E k \in 1..Len(outbox) :
          /\ outbox[k] = [to |-> "tab", type |-> "RECORDING_STOPPED"]
          /\ outbox' = [outbox EXCEPT ![k].to = "content"]
    /\ \E p \in LaterKeyboardPayloads :
          tasks' = Append(tasks, [payload |-> p, status |-> "pending",
                                  local |-> <<>>, now |-> 0])
    /\ UNCHANGED <<store, clock, isTransitioning, calls, feedVars, panelVars>>

FlushNext ==
    \/ HandleSessionEvent
    \/ TaskStep
    \/ StopOnce
    \/ StopStep
    \/ DetachFlush

FlushSpec == SessionInit /\ [][FlushNext]_vars

\* ------------------------------------------------------------------
\* Side panel: the Report Averager and the download handler
\* ------------------------------------------------------------------
\* JSON scalars as the side panel finds them in a stored run
Num(n) == [type |-> "number", value |-> n]

Str(s) == [type |-> "string", value |-> s]

Undefined == [type |-> "undefined", value |-> 0]

Null == [type |-> "null", value |-> 0]

\* Numbers of a stored report are in thousandths (3 clicks is Num(3000),
\* 2.585 bits is Num(2585)). An object is a record, a missing or null
\* object is <<>> where an object is expected.

\* a run with the click_count object cc; a missing object is <<>>
PanelRun(cc) ==
    <<[metadata |-> [timestamp |-> T0],
       metrics |-> <<[click_count |-> <<cc>>]>>]>>

ClickCounts(total, productive, ceremonial, wasted) ==
    [total |-> total, productive |-> productive,
     ceremonial |-> ceremonial, wasted |-> wasted]

\* an entry of fitts.top_3_hardest
FittsEntry(element, id) ==
    [element |-> element, id |-> id, distance_px |-> 200000,
     target_size |-> "40x20px"]

\* a report as stopRecording leaves it in benchmarkReport, seen as JSON
WorkerRun(cc, total_ms, composite, fitts, scanning, scroll, switches, typing) ==
    <<[schema_version |-> "1.0",
       metadata |-> [timestamp |-> T0],
       metrics |-> <<[click_count |-> <<cc>>,
                      time_on_task |-> <<[total_ms |-> Num(total_ms),
                                          application_wait_ms |-> Num(0)]>>,
                      fitts |-> <<fitts>>,
                      context_switches |-> <<switches>>,
                      shortcut_coverage |-> <<[shortcuts_used |-> Num(1000)]>>,
                      typing_ratio |-> <<typing>>,
                      scanning_distance |-> <<scanning>>,
                      scroll_distance |-> <<scroll>>,
                      composite_score |-> Num(composite)]>>]>>

RunA ==
    WorkerRun(ClickCounts(Num(3000), Num(2000), Num(1000), Num(0)),
              4001000, 14500,
              [formula |-> "shannon", cumulative_id |-> Num(5170),
               average_id |-> Num(2585), max_id |-> Num(3000),
               max_id_element |-> "Save", max_id_distance_px |-> Num(280000),
               top_3_hardest |-> <<FittsEntry("Save", 3000),
                                   FittsEntry("Menu", 2170)>>],
              [method |-> "euclidean", cumulative_px |-> Num(141421),
               average_px |-> Num(70710), max_single_px |-> Num(100000)],
              [total_px |-> Num(2000000), page_scroll_px |-> Num(1500000),
               container_scroll_px |-> Num(500000), scroll_events |-> Num(4000)],
              [total |-> Num(3000), ratio |-> Num(250)],
              [free_text_inputs |-> Num(2000), constrained_inputs |-> Num(1000),
               ratio |-> Num(667), free_text_fields |-> <<"Name", "Email">>])

RunB ==
    WorkerRun(ClickCounts(Num(4000), Num(1000), Num(1000), Num(2000)),
              6000000, 20255,
              [formula |-> "shannon", cumulative_id |-> Num(9000),
               average_id |-> Num(3000), max_id |-> Num(4455),
               max_id_element |-> "Close", max_id_distance_px |-> Num(410000),
               top_3_hardest |-> <<FittsEntry("Close", 4455),
                                   FittsEntry("Save", 3000),
                                   FittsEntry("Link", 1545)>>],
              [method |-> "euclidean", cumulative_px |-> Num(900000),
               average_px |-> Num(300000), max_single_px |-> Num(500000)],
              [total_px |-> Num(500000), page_scroll_px |-> Num(500000),
               container_scroll_px |-> Num(0), scroll_events |-> Num(1000)],
              [total |-> Num(0), ratio |-> Num(0)],
              [free_text_inputs |-> Num(1000), constrained_inputs |-> Num(0),
               ratio |-> Num(1000), free_text_fields |-> <<"Email", "Notes">>])

\* a report of a worker that also measures cursor travel; nothing moved,
\* so path_efficiency is null
RunC ==
    <<[RunA[1] EXCEPT
        !.metrics = <<[g \in DOMAIN RunA[1].metrics[1] \cup {"mouse_travel"} |->
            IF g = "mouse_travel"
            THEN <<[total_px |-> Num(0), idle_travel_px |-> Num(0),
                    move_events |-> Num(0), path_efficiency |-> Null]>>
            ELSE IF g = "fitts"
            THEN <<[RunA[1].metrics[1].fitts[1] EXCEPT
                        !.max_id = Num(4455), !.max_id_element = "Tab",
                        !.top_3_hardest = <<FittsEntry("Tab", 4455)>>]>>
            ELSE RunA[1].metrics[1][g]]>>]>>

\* the runs a stored sessionRuns array may hold: null, a run without
\* metrics, one without click_count, one without click_count.total, one
\* whose total is a string, two runs that carry click counts only, and
\* three full reports
ExportRuns ==
    { <<>>,
      <<[metadata |-> [timestamp |-> T0], metrics |-> <<>>]>>,
      <<[metadata |-> [timestamp |-> T0], metrics |-> <<[click_count |-> <<>>]>>]>>,
      PanelRun(ClickCounts(Undefined, Num(1000), Num(0), Num(0))),
      PanelRun(ClickCounts(Str(<<"3">>), Num(3000), Num(0), Num(0))),
      PanelRun(ClickCounts(Num(2000), Num(2000), Num(0), Num(0))),
      PanelRun(ClickCounts(Num(5000), Num(3000), Num(1000), Num(1000))),
      RunA, RunB, RunC }

\* a filter that accepts every run that has a click_count object
IsValidRunAnyTotal(run) ==
    /\ run # <<>>
    /\ run[1].metrics # <<>>
    /\ run[1].metrics[1].click_count # <<>>

\* run && run.metrics && run.metrics.click_count &&
\*     typeof run.metrics.click_count.total === 'number'
IsValidRun(run) ==
    /\ run # <<>>
    /\ run[1].metrics # <<>>
    /\ run[1].metrics[1].click_count # <<>>
    /\ run[1].metrics[1].click_count[1].total.type = "number"

\* interface AvgField
AvgField(path, round) == [path |-> path, round |-> round]

AVG_FIELDS ==
    << AvgField(<<"click_count", "total">>, "Math.round"),
       AvgField(<<"click_count", "productive">>, "Math.round"),
       AvgField(<<"click_count", "ceremonial">>, "Math.round"),
       AvgField(<<"click_count", "wasted">>, "Math.round"),
       AvgField(<<"time_on_task", "total_ms">>, "Math.round"),
       AvgField(<<"composite_score">>, "round2"),
       AvgField(<<"fitts", "cumulative_id">>, "round2"),
       AvgField(<<"fitts", "average_id">>, "round2"),
       AvgField(<<"fitts", "max_id">>, "round2"),
       AvgField(<<"scanning_distance", "cumulative_px">>, "Math.round"),
       AvgField(<<"scanning_distance", "average_px">>, "Math.round"),
       AvgField(<<"scanning_distance", "max_single_px">>, "Math.round"),
       AvgField(<<"scroll_distance", "total_px">>, "Math.round"),
       AvgField(<<"scroll_distance", "page_scroll_px">>, "Math.round"),
       AvgField(<<"scroll_distance", "container_scroll_px">>, "Math.round"),
       AvgField(<<"scroll_distance", "scroll_events">>, "Math.round"),
       AvgField(<<"context_switches", "total">>, "Math.round"),
       AvgField(<<"context_switches", "ratio">>, "round2"),
       AvgField(<<"shortcut_coverage", "shortcuts_used">>, "Math.round"),
       AvgField(<<"typing_ratio", "free_text_inputs">>, "Math.round"),
       AvgField(<<"typing_ratio", "constrained_inputs">>, "Math.round"),
       AvgField(<<"typing_ratio", "ratio">>, "round2"),
       AvgField(<<"mouse_travel", "total_px">>, "Math.round"),
       AvgField(<<"mouse_travel", "idle_travel_px">>, "Math.round"),
       AvgField(<<"mouse_travel", "move_events">>, "Math.round"),
       AvgField(<<"mouse_travel", "path_efficiency">>, "round2") >>

\* obj[p], undefined when obj has no such property
Prop(obj, p) == IF p \in DOMAIN obj THEN obj[p] ELSE Undefined

\* the object at obj[p], <<>> when it is missing
Child(obj, p) == IF p \in DOMAIN obj THEN obj[p] ELSE <<>>

\* obj with obj[p] = v
Put(obj, p, v) == (p :> v) @@ obj

\* function getPath(obj, path): the number at the path, 0 when a part of
\* the path is missing or the value is not a number
getPath(obj, path) ==
    LET cur == IF Len(path) = 1 THEN Prop(obj, path[1])
               ELSE IF Child(obj, path[1]) = <<>> THEN Undefined
               ELSE Prop(Child(obj, path[1])[1], path[2])
    IN  IF cur.type = "number" THEN cur.value ELSE 0

\* function setPath(obj, path, value): missing objects on the way are created
setPath(obj, path, value) ==
    IF Len(path) = 1 THEN Put(obj, path[1], Num(value))
    ELSE LET cur == IF Child(obj, path[1]) = <<>> THEN <<>>
                    ELSE Child(obj, path[1])[1]
         IN  Put(obj, path[1], <<Put(cur, path[2], Num(value))>>)

\* an average cut off at the unit instead of rounded to it
RoundMeanDown(round, sum, count) ==
    LET unit == IF round = "round2" THEN 10 ELSE 1000
    IN  unit * (sum \div (unit * count))

\* field.round(sum / count): Math.round gives whole numbers, round2
\* hundredths, both rounding a half upwards; sum >= 0
RoundMean(round, sum, count) ==
    LET unit == IF round = "round2" THEN 10 ELSE 1000
    IN  unit * ((2 * sum + unit * count) \div (2 * unit * count))

\* field.path === 'composite_score' ? run : run.metrics
SourceOf(run, path) ==
    IF path = <<"composite_score">> THEN run[1] ELSE run[1].metrics[1]

\* sums.get(field.path) after the forEach over validRuns
RECURSIVE SumOver(_, _)
SumOver(runs, path) ==
    IF runs = <<>> THEN 0
    ELSE getPath(SourceOf(runs[1], path), path) + SumOver(Tail(runs), path)

\* one turn of the loop over AVG_FIELDS: field.round(sum / count) is written
\* into the report itself for 'composite_score', into its metrics otherwise
SetAverage(baseReport, validRuns, field) ==
    LET value == RoundMean(field.round, SumOver(validRuns, field.path),
                           Len(validRuns))
    IN  IF field.path = <<"composite_score">>
        THEN setPath(baseReport, field.path, value)
        ELSE Put(baseReport, "metrics",
                 <<setPath(baseReport.metrics[1], field.path, value)>>)

\* the turns of the loop for AVG_FIELDS[lo..hi], in order: those of the
\* first half and, once their result is there, those of the second half
\* on that result
RECURSIVE SetAverages(_, _, _, _)
SetAverages(baseReport, validRuns, lo, hi) ==
    IF lo = hi THEN SetAverage(baseReport, validRuns, AVG_FIELDS[lo])
    ELSE LET mid == (lo + hi) \div 2
             half == SetAverages(baseReport, validRuns, lo, mid)
         IN  IF half = half
             THEN SetAverages(half, validRuns, mid + 1, hi) ELSE half

\* run.metrics?.fitts?.top_3_hardest, pushed onto allHardest when present
RECURSIVE AllHardest(_)
AllHardest(runs) ==
    IF runs = <<>> THEN <<>>
    ELSE LET fitts == Child(runs[1][1].metrics[1], "fitts")
         IN  (IF fitts = <<>> THEN <<>> ELSE Child(fitts[1], "top_3_hardest"))
                \o AllHardest(Tail(runs))

\* forEach(f => allFields.add(f)): a Set keeps the first insertion only
RECURSIVE AddAll(_, _)
AddAll(allFields, list) ==
    IF list = <<>> THEN allFields
    ELSE AddAll(IF \E i \in 1..Len(allFields) : allFields[i] = list[1]
                THEN allFields ELSE Append(allFields, list[1]),
                Tail(list))

RECURSIVE AllFields(_, _)
AllFields(runs, allFields) ==
    IF runs = <<>> THEN allFields
    ELSE LET typing == Child(runs[1][1].metrics[1], "typing_ratio")
         IN  AllFields(Tail(runs),
                AddAll(allFields,
                       IF typing = <<>> THEN <<>>
                       ELSE Child(typing[1], "free_text_fields")))

\* run.metrics?.fitts?.max_id || 0
MaxIdOr0(run) == getPath(run[1].metrics[1], <<"fitts", "max_id">>)

\* the forEach that keeps the first run with the greatest max_id
RECURSIVE BestMaxIdRun(_, _)
BestMaxIdRun(runs, best) ==
    IF runs = <<>> THEN best
    ELSE BestMaxIdRun(Tail(runs),
            IF MaxIdOr0(runs[1]) > MaxIdOr0(best) THEN runs[1] ELSE best)

\* bestMaxIdRun.metrics?.fitts?.max_id_element || ''
MaxIdElementOr(run) ==
    LET fitts == Child(run[1].metrics[1], "fitts")
    IN  IF fitts = <<>> \/ "max_id_element" \notin DOMAIN fitts[1] THEN ""
        ELSE fitts[1].max_id_element

\* a base report that is the last valid run itself: the object that the
\* averages are written into is element k of the input
BaseIsLastValidRun(k) == k

\* const baseReport = JSON.parse(JSON.stringify(validRuns[last])): a new
\* object, no element of the input (0)
BaseObject(k) == 0

\* function buildAveragedReport(runs): the averaged report or the thrown
\* Error('No valid runs'), and the runs array as the call leaves it
buildAveragedReport(runs) ==
    LET validAt == {i \in 1..Len(runs) : IsValidRun(runs[i])}
        validRuns == SelectSeq(runs, IsValidRun)
        count == Len(validRuns)
    IN  IF count = 0 THEN [threw |-> TRUE, report |-> <<>>, runs |-> runs]
        ELSE LET last == CHOOSE i \in validAt : \A j \in validAt : j <= i
                 base == BaseObject(last)
                 averaged == SetAverages(validRuns[count][1], validRuns, 1,
                                        Len(AVG_FIELDS))
                 fitts == Put(averaged.metrics[1].fitts[1], "top_3_hardest",
                              SubSeq(SortDesc(AllHardest(validRuns)), 1,
                                     Min(3, Len(AllHardest(validRuns)))))
                 fitts2 == Put(fitts, "max_id_element",
                               MaxIdElementOr(BestMaxIdRun(validRuns, validRuns[1])))
                 typing == Put(averaged.metrics[1].typing_ratio[1],
                               "free_text_fields", AllFields(validRuns, <<>>))
                 metrics == Put(Put(averaged.metrics[1], "fitts", <<fitts2>>),
                                "typing_ratio", <<typing>>)
                 metadata == Put(Put(averaged.metadata, "run_count", count),
                                 "averaged", TRUE)
                 baseReport == Put(Put(averaged, "metrics", <<metrics>>),
                                   "metadata", metadata)
             IN  [threw |-> FALSE, report |-> <<baseReport>>,
                  runs |-> IF base = 0 THEN runs
                           ELSE [runs EXCEPT ![base] = <<baseReport>>]]

\* downloadBtn click handler; the button's disabled flag and the selected
\* format are inputs
DownloadClick ==
    /\ Len(downloads) + Len(warnings) < MaxExports
    /\ \E disabled \in BOOLEAN, format \in {"json", "markdown"} :
          IF disabled \/ Len(sessionRuns) = 0
          THEN UNCHANGED panelVars
          ELSE LET built == buildAveragedReport(sessionRuns)
               IN  IF built.threw
                   THEN /\ warnings' = Append(warnings, "UXBench: No valid runs to export")
                        /\ sessionRuns' = built.runs
                        /\ UNCHANGED downloads
                   ELSE /\ downloads' = Append(downloads,
                                [format |-> format,
                                 runs |-> built.report[1].metadata.run_count,
                                 report |-> built.report[1]])
                        /\ sessionRuns' = built.runs
                        /\ UNCHANGED warnings
    /\ UNCHANGED <<store, clock, workerVars, feedVars, tasks, machineVars>>

\* ExportSpec: a side panel that holds up to MaxRuns stored runs, and its
\* download button
ExportInit ==
    /\ store = [recordingState |-> initialState, stats |-> <<>>,
                benchmarkReport |-> <<>>]
    /\ clock = T0
    /\ isTransitioning = FALSE
    /\ feedCounter = 0
    /\ lastScrollTotal = 0
    /\ lastScrollFeedTime = 0
    /\ tasks = <<>>
    /\ calls = <<>>
    /\ outbox = <<>>
    /\ feed = <<>>
    /\ sessionRuns \in UNION {[1..n -> ExportRuns] : n \in 0..MaxRuns}
    /\ downloads = <<>>
    /\ warnings = <<>>
    /\ MachineInit

ExportNext == DownloadClick

ExportSpec == ExportInit /\ [][ExportNext]_vars

\* ------------------------------------------------------------------
\* Side panel state machine
\* ------------------------------------------------------------------
\* deriveState(): the panel state that the DOM and sessionRuns give
deriveState(isRecording, viewport, runs) ==
    IF isRecording THEN "RECORDING"
    ELSE IF Len(runs) > 0 THEN "HAS_RUNS"
    ELSE IF viewport THEN "READY"
    ELSE "COLD_START"

\* currentState(): transientState ?? deriveState()
currentState(transient, isRecording, viewport, runs) ==
    IF transient # <<>> THEN transient[1]
    ELSE deriveState(isRecording, viewport, runs)

\* applyState(): the disabled flag it gives the action button in a state
applyState(state, viewport) ==
    CASE state \in {"COLD_START", "STARTING", "STOPPING"} -> TRUE
      [] state = "HAS_RUNS" -> ~viewport
      [] OTHER -> FALSE

\* resSelect change handler: a viewport is chosen; the select is locked
\* while recording or transitioning
ResSelectChange ==
    /\ ~viewportSelected
    /\ currentState(transientState, recordingClass, viewportSelected, sessionRuns)
            \in {"COLD_START", "HAS_RUNS"}
    /\ viewportSelected' = TRUE
    /\ actionBtnDisabled' =
            applyState(currentState(transientState, recordingClass, TRUE, sessionRuns),
                       TRUE)
    /\ UNCHANGED <<store, clock, workerVars, feedVars, tasks, sessionRuns,
                   downloads, warnings, recordingClass, transientState, updates,
                   delivered, panelSent, received>>

\* actionBtn click handler: a disabled button does nothing; RECORDING sends
\* STOP_RECORDING, READY and HAS_RUNS send START_RECORDING, each after the
\* transient state is set and applied
ActionClick ==
    /\ Len(panelSent) < MaxPanelClicks
    /\ ~actionBtnDisabled
    /\ LET state == currentState(transientState, recordingClass, viewportSelected,
                                 sessionRuns)
       IN  \/ /\ state = "RECORDING"
              /\ transientState' = <<"STOPPING">>
              /\ actionBtnDisabled' = applyState("STOPPING", viewportSelected)
              /\ panelSent' = Append(panelSent, "STOP_RECORDING")
           \/ /\ state \in {"READY", "HAS_RUNS"}
              /\ transientState' = <<"STARTING">>
              /\ actionBtnDisabled' = applyState("STARTING", viewportSelected)
              /\ panelSent' = Append(panelSent, "START_RECORDING")
    /\ UNCHANGED <<store, clock, workerVars, feedVars, tasks, sessionRuns,
                   downloads, warnings, recordingClass, viewportSelected, updates,
                   delivered, received>>

\* the worker's onMessage listener is handed the panel's next message: while
\* isTransitioning it does nothing with it, otherwise it sets the flag and
\* startRecording or stopRecording runs up to its first await
PanelMessage ==
    /\ received < Len(panelSent)
    /\ received' = received + 1
    /\ IF isTransitioning
       THEN UNCHANGED <<isTransitioning, calls>>
       ELSE /\ isTransitioning' = TRUE
            /\ calls' = Append(calls,
                    IF panelSent[received + 1] = "START_RECORDING"
                    THEN NewCall("start", TRUE, "query", <<>>)
                    ELSE NewCall("stop", TRUE, "get", <<store.recordingState>>))
    /\ UNCHANGED <<store, clock, feedVars, tasks, outbox, sessionRuns,
                   downloads, warnings, recordingClass, transientState,
                   actionBtnDisabled, viewportSelected, updates, delivered, panelSent>>

\* the chrome.runtime.sendMessage broadcasts of the worker, oldest first
RuntimeMessages == SelectSeq(outbox, LAMBDA m : m.to = "runtime")

\* an updateUI invocation that waits for its storage.get
NewUpdate(isRecording, report) ==
    [isRecording |-> isRecording, pc |-> "get", report |-> report]

\* the panel's onMessage listener: updateUI(true) or updateUI(false) runs up
\* to its first await, the transient state is cleared at once
PanelReceive ==
    /\ delivered < Len(RuntimeMessages)
    /\ delivered' = delivered + 1
    /\ transientState' = <<>>
    /\ LET isRecording ==
               RuntimeMessages[delivered + 1].type = "RECORDING_STARTED"
       IN  /\ recordingClass' = isRecording
           /\ updates' = Append(updates,
                  NewUpdate(isRecording,
                            IF isRecording THEN <<>> ELSE store.benchmarkReport))
    /\ UNCHANGED <<store, clock, workerVars, feedVars, tasks, sessionRuns,
                   downloads, warnings, actionBtnDisabled, viewportSelected,
                   panelSent, received>>

\* sessionRuns.push(benchmarkReport)
Push(runs, report) == Append(runs, report)

\* updateUI after storage.get: with a report, push it and issue the
\* storage.set of sessionRuns; without one, and after RECORDING_STARTED,
\* applyState
UpdateGot(u) ==
    /\ updates[u].pc = "get"
    /\ IF ~updates[u].isRecording /\ updates[u].report # <<>>
       THEN /\ sessionRuns' = Push(sessionRuns, updates[u].report)
            /\ updates' = [updates EXCEPT ![u].pc = "set"]
            /\ UNCHANGED actionBtnDisabled
       ELSE /\ actionBtnDisabled' =
                    applyState(currentState(transientState, recordingClass,
                                            viewportSelected, sessionRuns),
                               viewportSelected)
            /\ updates' = [updates EXCEPT ![u].pc = "done"]
            /\ UNCHANGED sessionRuns
    /\ UNCHANGED <<store, clock, workerVars, feedVars, tasks, downloads,
                   warnings, recordingClass, transientState, viewportSelected,
                   delivered, panelSent, received>>

\* updateUI after storage.set: storage.remove('benchmarkReport') is issued
UpdateRemove(u) ==
    /\ updates[u].pc = "set"
    /\ store' = [store EXCEPT !.benchmarkReport = <<>>]
    /\ updates' = [updates EXCEPT ![u].pc = "remove"]
    /\ UNCHANGED <<clock, workerVars, feedVars, tasks, sessionRuns, downloads,
                   warnings, recordingClass, transientState, actionBtnDisabled,
                   viewportSelected, delivered, panelSent, received>>

\* updateUI after storage.remove: applyState
UpdateApply(u) ==
    /\ updates[u].pc = "remove"
    /\ actionBtnDisabled' =
            applyState(currentState(transientState, recordingClass,
                                    viewportSelected, sessionRuns),
                       viewportSelected)
    /\ updates' = [updates EXCEPT ![u].pc = "done"]
    /\ UNCHANGED <<store, clock, workerVars, feedVars, tasks, sessionRuns,
                   downloads, warnings, recordingClass, transientState,
                   viewportSelected, delivered, panelSent, received>>

UpdateUI ==
    \E u \in 1..Len(updates) : UpdateGot(u) \/ UpdateRemove(u) \/ UpdateApply(u)

\* PanelSpec: one side panel and the worker, the toggle-recording shortcut
\* included; every message is delivered and every pending call and
\* updateUI continues
PanelNext ==
    \/ ResSelectChange
    \/ ActionClick
    \/ PanelMessage
    \/ Command
    \/ CallStep
    \/ PanelReceive
    \/ UpdateUI

PanelSpec ==
    /\ Init
    /\ [][PanelNext]_vars
    /\ WF_vars(PanelMessage)
    /\ WF_vars(CallStep)
    /\ WF_vars(PanelReceive)
    /\ WF_vars(UpdateUI)

\* QueueSpec: the event queue of one recording session without the wall
\* clock. The event loop runs every callback whose promise has settled:
\* a task step that stays enabled is taken.
HandleQueued == HandleEventOf(CorePayloads(clock), MaxQueued)

QueueNext ==
    \/ HandleQueued
    \/ TaskStep

QueueSpec == SessionInit /\ [][QueueNext]_vars /\ WF_vars(TaskStep)

\* ------------------------------------------------------------------
\* Properties
\* ------------------------------------------------------------------

\* C1: events are processed one at a time in submission order: an event
\* leaves the pending state only when every event submitted before it has
\* settled, and the state an event has read includes the write-back of
\* every earlier event that the store holds.
C1_EventsSerialized ==
    /\ \A i \in 1..Len(tasks) : \A j \in 1..Len(tasks) :
          (i < j /\ tasks[j].status # "pending")
              => tasks[i].status \in {"done", "failed"}
    /\ \A j \in 1..Len(tasks) :
          tasks[j].status = "read"
              => \A i \in 1..(j - 1) :
                    i \in store.recordingState.applied
                        => i \in tasks[j].local[1].applied

\* the second event has read a state that includes the first event's effects
C1_SecondReadsFirst ==
    /\ Len(tasks) = 2
    /\ tasks[2].status = "read"
    /\ 1 \in tasks[2].local[1].applied
    /\ Rec(tasks[2].local[1]).metrics.click_count.total = 1

\* C2: stopRecording sends RECORDING_STOPPED only after its storage.set:
\* the step that sends the notifications is taken by a stop call that has
\* written, and the write leaves isRecording false and the finalized report
\* in the store.
C2_WriteBeforeNotify ==
    [][ /\ outbox' = outbox \o StoppedMessages
            => \E c \in 1..Len(calls) :
                  /\ calls[c].kind = "stop"
                  /\ calls'[c] # calls[c]
                  /\ calls[c].wrote
        /\ \A c \in 1..Len(calls) :
              (calls[c].kind = "stop" /\ ~calls[c].wrote /\ calls'[c].wrote)
                  => /\ ~store'.recordingState.isRecording
                     /\ store'.benchmarkReport # <<>>
                     /\ outbox' = outbox ]_vars

\* a stop has notified, and the report it wrote is in the store
C2_StoppedAndReported ==
    /\ \E k \in 1..Len(outbox) : outbox[k].type = "RECORDING_STOPPED"
    /\ store.benchmarkReport # <<>>
    /\ ~store.recordingState.isRecording

\* C3: an event whose processing throws does not stop the queue: every
\* event submitted after it is still processed, and in submission order.
C3_FailureDoesNotBlock ==
    /\ \A i \in 1..MaxQueued : \A j \in 1..MaxQueued :
          i < j =>
            ((Len(tasks) >= j /\ tasks[i].status = "failed"
                    /\ tasks[j].status = "pending")
                ~> (Len(tasks) >= j /\ tasks[j].status \in {"done", "failed"}))
    /\ [](\A i \in 1..Len(tasks) : \A j \in 1..Len(tasks) :
            (i < j /\ tasks[j].status # "pending")
                => tasks[i].status \in {"done", "failed"})

\* the first event failed and the one after it has been processed and has
\* updated the session
C3_ProcessedAfterFailure ==
    /\ Len(tasks) >= 2
    /\ tasks[1].status = "failed"
    /\ tasks[2].status = "done"
    /\ 2 \in store.recordingState.applied

\* C4: an event processed while the session it read is not recording
\* returns without an error and changes nothing: store (state, report,
\* stats) and feed are as before.
C4_DropWhenNotRecording ==
    [][ \A i \in 1..Len(tasks) :
          (tasks[i].status = "read" /\ ~tasks[i].local[1].isRecording
                /\ tasks'[i] # tasks[i])
              => /\ tasks'[i].status = "done"
                 /\ store' = store
                 /\ feed' = feed
                 /\ feedCounter' = feedCounter
                 /\ outbox' = outbox ]_vars

\* an event has been dropped before any session was started
C4_DroppedBeforeAnySession ==
    /\ calls = <<>>
    /\ Len(tasks) >= 1
    /\ tasks[1].status = "done"
    /\ store.recordingState = initialState
    /\ store.stats = <<>>
    /\ feed = <<>>
    /\ PanelInit

\* C5: stopRecording called when the state it reads is not recording
\* returns at once: nothing is written and no RECORDING_STOPPED is sent.
C5_StopWhenNotRecording ==
    [][ \A c \in 1..Len(calls) :
          (calls[c].kind = "stop" /\ calls[c].pc = "get"
                /\ ~calls[c].snap[1].isRecording /\ calls'[c] # calls[c])
              => /\ calls'[c].pc = "done"
                 /\ ~calls'[c].wrote
                 /\ store' = store
                 /\ outbox' = outbox ]_vars

\* a stop has returned with nothing recorded: no report, no notification
C5_StopReturnedEarly ==
    /\ \E c \in 1..Len(calls) :
          calls[c].kind = "stop" /\ calls[c].pc = "done" /\ ~calls[c].wrote
    /\ store.recordingState = initialState
    /\ store.benchmarkReport = <<>>
    /\ outbox = <<>>

\* C6: startRecording called while a session is recording leaves the
\* stored recording state as it is.
C6_StartWhileRecordingNoOp ==
    [][ \A c \in 1..Len(calls) :
          (calls[c].kind = "start" /\ calls[c].pc = "query"
                /\ calls'[c] # calls[c] /\ store.recordingState.isRecording)
              => store'.recordingState = store.recordingState ]_vars

\* C7: startRecording from a not-recording state writes a fresh session:
\* recording, no last click, every counter and cumulative metric zero,
\* fitts.formula "shannon", composite_score 0, an empty action log, and
\* stats and the finalized report cleared.
C7_StartWritesFreshSession ==
    [][ \A c \in 1..Len(calls) :
          (calls[c].kind = "start" /\ calls[c].pc = "query"
                /\ calls'[c] # calls[c] /\ ~store.recordingState.isRecording)
              => LET rs == store'.recordingState
                     m == Rec(rs).metrics
                 IN  /\ rs.isRecording
                     /\ rs.lastClickPosition = <<>>
                     /\ rs.lastClickTarget = <<>>
                     /\ m.click_count.total = 0
                     /\ m.click_count.productive = 0
                     /\ m.click_count.ceremonial = 0
                     /\ m.click_count.wasted = 0
                     /\ m.time_on_task.total_ms = 0
                     /\ m.time_on_task.application_wait_ms = 0
                     /\ m.time_on_task.idle_gaps = <<>>
                     /\ m.fitts.formula = "shannon"
                     /\ m.fitts.cumulative_id = 0
                     /\ m.fitts.average_id = 0
                     /\ m.fitts.max_id = 0
                     /\ m.context_switches.total = 0
                     /\ m.shortcut_coverage.shortcuts_used = 0
                     /\ m.typing_ratio.free_text_inputs = 0
                     /\ m.typing_ratio.constrained_inputs = 0
                     /\ m.navigation_depth.total_depth_changes = 0
                     /\ m.scanning_distance.cumulative_px = 0
                     /\ m.scroll_distance.total_px = 0
                     /\ m.composite_score = 0
                     /\ Rec(rs).action_log = <<>>
                     /\ store'.stats = <<>>
                     /\ store'.benchmarkReport = <<>> ]_vars

\* a session was stopped, and the start that followed has written its fresh
\* state over the stopped session's report
C7_RestartedFresh ==
    /\ \E k \in 1..Len(outbox) : outbox[k].type = "RECORDING_STOPPED"
    /\ \E c \in 1..Len(calls) : calls[c].kind = "start" /\ calls[c].pc = "set"
    /\ store.recordingState.isRecording
    /\ store.recordingState.applied = {}
    /\ store.benchmarkReport = <<>>
    /\ store.stats = <<>>

\* C8: click_count.total = productive + ceremonial + wasted in every state
\* of a session, and each processed click adds one to total and one to
\* exactly one of the three buckets, whatever its classification (one that
\* is missing or unknown included).
C8_ClickBucketsSumToTotal ==
    [][ LET cc == Rec(store'.recordingState).metrics.click_count
        IN  /\ cc.total = cc.productive + cc.ceremonial + cc.wasted
            /\ \A i \in 1..Len(tasks) :
                  (tasks[i].status = "read" /\ tasks'[i].status = "written"
                        /\ tasks[i].payload.type = "click")
                      => LET b == Rec(tasks[i].local[1]).metrics.click_count
                             dp == cc.productive - b.productive
                             dc == cc.ceremonial - b.ceremonial
                             dw == cc.wasted - b.wasted
                         IN  /\ cc.total = b.total + 1
                             /\ {dp, dc, dw} \subseteq {0, 1}
                             /\ dp + dc + dw = 1 ]_vars

\* a click with an unknown classification has been counted, as productive
C8_UnknownClassificationCounted ==
    LET r == Rec(store.recordingState)
    IN  /\ Len(r.action_log) = 1
        /\ r.action_log[1].classification = "rage"
        /\ r.metrics.click_count.total = 1
        /\ r.metrics.click_count.productive = 1

\* C9: an active event processed with lastActionTime set appends exactly
\* one idle gap, with gap_ms the time since the last action, when that time
\* is more than 3000 ms, and appends nothing otherwise; every recorded gap
\* has gap_ms > 3000.
C9_IdleGapOverThreshold ==
    [][ /\ \A i \in 1..Len(tasks) :
              (tasks[i].status = "read" /\ tasks'[i].status = "written"
                    /\ isUserAction(tasks[i].payload)
                    /\ tasks[i].local[1].lastActionTime # 0)
                  => LET before == Rec(tasks[i].local[1]).metrics.time_on_task.idle_gaps
                         after == Rec(store'.recordingState).metrics.time_on_task.idle_gaps
                         gap == tasks'[i].now - tasks[i].local[1].lastActionTime
                     IN  IF gap > IDLE_GAP_MS
                         THEN /\ Len(after) = Len(before) + 1
                              /\ SubSeq(after, 1, Len(before)) = before
                              /\ after[Len(after)].gap_ms = gap
                         ELSE after = before
        /\ LET gaps == Rec(store'.recordingState).metrics.time_on_task.idle_gaps
           IN  \A k \in 1..Len(gaps) : gaps[k].gap_ms > IDLE_GAP_MS ]_vars

\* the second click came 3001 ms after the first and one gap of 3001 ms,
\* after the first click's label, is recorded
C9_GapAfterFirstClick ==
    LET r == Rec(store.recordingState)
        gaps == r.metrics.time_on_task.idle_gaps
    IN  /\ r.metrics.click_count.total = 2
        /\ Len(gaps) = 1
        /\ gaps[1].gap_ms = IDLE_GAP_MS + 1
        /\ gaps[1].after_action # S_start

\* no click, keyboard update or scroll update has been written back yet
C10_NoActiveEventYet(rs) ==
    /\ Rec(rs).action_log = <<>>
    /\ Rec(rs).metrics.context_switches.total = 0
    /\ Rec(rs).metrics.scroll_distance.total_px = 0

\* C10 as stated: the first active event of a session never appends an
\* idle gap.
C10_FirstActiveNeverAppends ==
    [][ \A i \in 1..Len(tasks) :
          (tasks[i].status = "read" /\ tasks'[i].status = "written"
                /\ isUserAction(tasks[i].payload)
                /\ C10_NoActiveEventYet(tasks[i].local[1]))
              => Rec(store'.recordingState).metrics.time_on_task.idle_gaps = <<>> ]_vars

\* C10: the first active event of a session appends an idle gap exactly
\* when it comes more than 3000 ms after the start of the session; the gap
\* is measured from the start time and has after_action 'start'.
C10_FirstActiveGapFromStart ==
    [][ \A i \in 1..Len(tasks) :
          (tasks[i].status = "read" /\ tasks'[i].status = "written"
                /\ isUserAction(tasks[i].payload)
                /\ C10_NoActiveEventYet(tasks[i].local[1]))
              => LET gaps == Rec(store'.recordingState).metrics.time_on_task.idle_gaps
                     gap == tasks'[i].now - tasks[i].local[1].startTime
                 IN  IF gap > IDLE_GAP_MS
                     THEN /\ Len(gaps) = 1
                          /\ gaps[1].gap_ms = gap
                          /\ gaps[1].after_action = S_start
                     ELSE gaps = <<>> ]_vars

\* the only active event so far, a click, came 3001 ms after the start and
\* a gap after 'start' is recorded
C10_GapAfterStart ==
    LET r == Rec(store.recordingState)
        gaps == r.metrics.time_on_task.idle_gaps
    IN  /\ Len(r.action_log) = 1
        /\ r.metrics.context_switches.total = 0
        /\ r.metrics.scroll_distance.total_px = 0
        /\ Len(gaps) = 1
        /\ gaps[1].gap_ms = IDLE_GAP_MS + 1
        /\ gaps[1].after_action = S_start

\* C11: an event that is not a click, a keyboard update or a scroll update
\* (depth, density, wait, cursor travel) never appends an idle gap and never
\* changes lastActionTime or lastActionLabel, however long after the last
\* active event it is processed.
C11_PassiveEventsSkipIdleGap ==
    [][ \A i \in 1..Len(tasks) :
          (tasks[i].status = "read" /\ tasks'[i] # tasks[i]
                /\ tasks[i].payload.type
                      \notin {"click", "keyboard_update", "scroll_update"})
              => LET rs == tasks[i].local[1]
                     rs1 == store'.recordingState
                 IN  /\ Rec(rs1).metrics.time_on_task.idle_gaps
                            = Rec(rs).metrics.time_on_task.idle_gaps
                     /\ rs1.lastActionTime = rs.lastActionTime
                     /\ rs1.lastActionLabel = rs.lastActionLabel ]_vars

\* a depth update processed more than 3000 ms after the last action has
\* been written back, and no gap is recorded
C11_LatePassiveEvent ==
    \E i \in 1..Len(tasks) :
        /\ tasks[i].status = "written"
        /\ tasks[i].payload.type = "depth_update"
        /\ tasks[i].now - store.recordingState.lastActionTime > IDLE_GAP_MS
        /\ Rec(store.recordingState).metrics.navigation_depth.max_depth = 2
        /\ Rec(store.recordingState).metrics.time_on_task.idle_gaps = <<>>

\* C12 as stated: after every processed click, keyboard or scroll event
\* lastActionTime is the event's time and lastActionLabel is the event's
\* label (click: target text cut to 40 characters, or tag name; keyboard:
\* 'keyboard'; scroll: 'scroll'), and a gap appended by the event has the
\* previous label as after_action and the event's label as before_action.
C12_LastActionFollowsEvent ==
    [][ \A i \in 1..Len(tasks) :
          (tasks[i].status = "read" /\ tasks'[i].status = "written"
                /\ tasks[i].payload.type
                      \in {"click", "keyboard_update", "scroll_update"})
              => LET p == tasks[i].payload
                     label == CASE p.type = "click" -> ClickLabel(p)
                                [] p.type = "keyboard_update" -> S_keyboard
                                [] OTHER -> <<"s", "c", "r", "o", "l", "l">>
                     rs == tasks[i].local[1]
                     rs1 == store'.recordingState
                     before == Rec(rs).metrics.time_on_task.idle_gaps
                     after == Rec(rs1).metrics.time_on_task.idle_gaps
                 IN  /\ rs1.lastActionTime = tasks'[i].now
                     /\ rs1.lastActionLabel = label
                     /\ Len(after) > Len(before)
                            => /\ after[Len(after)].before_action = label
                               /\ rs.lastActionLabel # <<>>
                                    => after[Len(after)].after_action
                                            = rs.lastActionLabel ]_vars

\* C13: stopRecording called while recording writes a report whose
\* time_on_task has total_ms = the time elapsed since the start, idle_ms =
\* the sum of gap_ms over idle_gaps, active_ms = total_ms - idle_ms and,
\* when there is a gap, longest_idle_ms = the largest gap_ms with
\* longest_idle_after the after_action of a gap of that length; the stored
\* state is not recording afterwards.
C13_StopFinalizesTimeOnTask ==
    [][ \A c \in 1..Len(calls) :
          (calls[c].kind = "stop" /\ ~calls[c].wrote /\ calls'[c].wrote)
              => LET rs == calls[c].snap[1]
                     t == store'.benchmarkReport[1].metrics.time_on_task
                     gaps == Rec(rs).metrics.time_on_task.idle_gaps
                     longest == CHOOSE g \in {gaps[k].gap_ms : k \in 1..Len(gaps)} \cup {0} :
                                   \A k \in 1..Len(gaps) : gaps[k].gap_ms <= g
                 IN  /\ t.idle_gaps = gaps
                     /\ t.total_ms = clock - rs.startTime
                     /\ store'.benchmarkReport[1].metadata.duration_ms = t.total_ms
                     /\ t.idle_ms = <<SumGaps(gaps)>>
                     /\ t.active_ms = <<t.total_ms - SumGaps(gaps)>>
                     /\ gaps # <<>>
                          => /\ t.longest_idle_ms = <<longest>>
                             /\ \E k \in 1..Len(gaps) :
                                   /\ gaps[k].gap_ms = longest
                                   /\ t.longest_idle_after = gaps[k].after_action
                     /\ ~store'.recordingState.isRecording ]_vars

\* a session with a gap of 3001 ms followed by a longer one has been
\* stopped: the report names the second gap as the longest
C13_StoppedWithTwoGaps ==
    /\ store.benchmarkReport # <<>>
    /\ ~store.recordingState.isRecording
    /\ LET t == store.benchmarkReport[1].metrics.time_on_task
       IN  /\ Len(t.idle_gaps) = 2
           /\ t.idle_gaps[1].gap_ms < t.idle_gaps[2].gap_ms
           /\ t.longest_idle_ms = <<t.idle_gaps[2].gap_ms>>
           /\ t.idle_ms = <<t.idle_gaps[1].gap_ms + t.idle_gaps[2].gap_ms>>
           /\ t.active_ms = <<t.total_ms - t.idle_ms[1]>>

C15_ReportFieldNeverStale ==
    (store.recordingState.currentRecording # <<>>
            /\ store.recordingState.applied # {})
        => LET m == Rec(store.recordingState).metrics
           IN  m.composite_score = computeComposite(m)

\* C15: the composite in the live stats is the formula applied to the
\* stored report's metrics (rounded to one decimal) after every write-back;
\* the composite_score field of the in-progress report stays 0 until
\* stopRecording sets it, in the finalized report, to the formula applied
\* to the final metrics.
C15_CompositeFreshInStatsAndFinalReport ==
    /\ (store.stats # <<>> /\ store.recordingState.currentRecording # <<>>)
          => store.stats[1].composite
                = Round1(computeComposite(Rec(store.recordingState).metrics))
    /\ store.recordingState.currentRecording # <<>>
          => Rec(store.recordingState).metrics.composite_score = 0
    /\ store.benchmarkReport # <<>>
          => store.benchmarkReport[1].metrics.composite_score
                = computeComposite(store.benchmarkReport[1].metrics)

\* a session with a keyboard update and a scroll update was stopped: the
\* finalized report carries the score
C15_FinalReportScored ==
    /\ store.benchmarkReport # <<>>
    /\ store.benchmarkReport[1].metrics.context_switches.total = 3
    /\ store.benchmarkReport[1].metrics.scroll_distance.total_px = 2000
    /\ store.benchmarkReport[1].metrics.composite_score = 16500

\* C16: fitts.average_id and scanning_distance.average_px are 0 whenever
\* click_count.total <= 1, in the report of the session in progress and in
\* a finalized report, also in a session that follows one with more clicks.
C16_AveragesZeroUntilSecondClick ==
    /\ store.recordingState.currentRecording # <<>>
          => LET m == Rec(store.recordingState).metrics
             IN  m.click_count.total <= 1
                    => (m.fitts.average_id = 0 /\ m.scanning_distance.average_px = 0)
    /\ store.benchmarkReport # <<>>
          => LET m == store.benchmarkReport[1].metrics
             IN  m.click_count.total <= 1
                    => (m.fitts.average_id = 0 /\ m.scanning_distance.average_px = 0)

\* three clicks were processed in all, a session was stopped, and the
\* session in progress has its first click with both averages 0
C16_FirstClickAfterRestart ==
    /\ Cardinality({k \in 1..Len(feed) : feed[k].type = "click"}) = 3
    /\ \E k \in 1..Len(outbox) : outbox[k].type = "RECORDING_STOPPED"
    /\ store.recordingState.isRecording
    /\ Rec(store.recordingState).metrics.click_count.total = 1
    /\ Rec(store.recordingState).metrics.fitts.average_id = 0
    /\ Rec(store.recordingState).metrics.scanning_distance.average_px = 0

\* C17: the first click of a session leaves the scanning distance as it
\* is; every later click adds the Euclidean distance d from the previous
\* click position to cumulative_px, and when d exceeds max_single_px it
\* becomes max_single_px with max_single_from / max_single_to the labels of
\* the previous click and of this click.
C17_ScanningDistanceAccumulates ==
    [][ \A i \in 1..Len(tasks) :
          (tasks[i].status = "read" /\ tasks'[i].status = "written"
                /\ tasks[i].payload.type = "click")
              => LET rs == tasks[i].local[1]
                     p == tasks[i].payload
                     sd == Rec(rs).metrics.scanning_distance
                     sd1 == Rec(store'.recordingState).metrics.scanning_distance
                 IN  IF rs.lastClickPosition = <<>>
                     THEN /\ sd1 = sd
                          /\ sd1.cumulative_px = 0
                     ELSE LET dx == p.x - rs.lastClickPosition[1].x
                              dy == p.y - rs.lastClickPosition[1].y
                          IN  \E d \in 0..1000 :
                                /\ d * d = dx * dx + dy * dy
                                /\ sd1.cumulative_px = sd.cumulative_px + d
                                /\ IF d > sd.max_single_px
                                   THEN /\ sd1.max_single_px = d
                                        /\ sd1.max_single_from = rs.lastClickTarget
                                        /\ sd1.max_single_to = ClickLabel(p)
                                   ELSE /\ sd1.max_single_px = sd.max_single_px
                                        /\ sd1.max_single_from = sd.max_single_from
                                        /\ sd1.max_single_to = sd.max_single_to ]_vars

\* clicks at (100,100), (500,100) and (500,400): 400 + 300 px, the longest
\* single distance being the one from A to B
C17_ThreeClicksSevenHundredPx ==
    LET r == Rec(store.recordingState)
        sd == r.metrics.scanning_distance
    IN  /\ r.metrics.click_count.total = 3
        /\ sd.cumulative_px = 700
        /\ sd.max_single_px = 400
        /\ sd.max_single_from = <<"A">>
        /\ sd.max_single_to = <<"B">>

C19_DegenerateGeometrySkipped ==
    [][ \A i \in 1..Len(tasks) :
          (tasks[i].status = "read" /\ tasks[i].payload.type = "click"
                /\ tasks'[i] # tasks[i]
                /\ tasks[i].local[1].lastClickPosition # <<>>)
              => LET rs == tasks[i].local[1]
                     p == tasks[i].payload
                     dx == Abs(p.x - rs.lastClickPosition[1].x)
                     dy == Abs(p.y - rs.lastClickPosition[1].y)
                     w == p.target[1].rect.width
                     h == p.target[1].rect.height
                     f == Rec(rs).metrics.fitts
                     rs1 == store'.recordingState
                     f1 == Rec(rs1).metrics.fitts
                 IN  (dx * dx + dy * dy = 0 \/ w * dx + h * dy = 0)
                        => /\ tasks'[i].status = "written"
                           /\ f1.cumulative_id = f.cumulative_id
                           /\ f1.max_id = f.max_id
                           /\ f1.max_id_element = f.max_id_element
                           /\ f1.top_3_hardest = f.top_3_hardest
                           /\ Rec(rs1).metrics.click_count.total
                                = Rec(rs).metrics.click_count.total + 1
                           /\ Len(Rec(rs1).action_log) = Len(Rec(rs).action_log) + 1
                           /\ rs1.lastClickPosition = <<[x |-> p.x, y |-> p.y]>> ]_vars

\* C20: top_3_hardest has at most 3 entries, in descending order of id, and
\* its k-th entry carries the k-th largest of the Fitts IDs computed for
\* the clicks of the session.
C20_Top3AreTheLargest ==
    LET top == Rec(store.recordingState).metrics.fitts.top_3_hardest
        ids == store.recordingState.ids
    IN  /\ Len(top) <= 3
        /\ Len(top) = Min(3, Len(ids))
        /\ \A k \in 1..(Len(top) - 1) : top[k].id >= top[k + 1].id
        /\ \A k \in 1..Len(top) :
              /\ Cardinality({j \in 1..Len(ids) : ids[j] > top[k].id}) <= k - 1
              /\ Cardinality({j \in 1..Len(ids) : ids[j] >= top[k].id}) >= k

\* four IDs were computed, the first being the smallest: it was dropped
\* and the list holds the three later ones
C20_FourthDisplacesSmallest ==
    LET top == Rec(store.recordingState).metrics.fitts.top_3_hardest
        ids == store.recordingState.ids
    IN  /\ Len(ids) = 4
        /\ Len(top) = 3
        /\ \A j \in 2..4 : ids[j] > ids[1]
        /\ \A k \in 1..3 : top[k].id > ids[1]

\* the largest element of a sequence of naturals, 0 for the empty one
C21_Largest(ids) ==
    IF ids = <<>> THEN 0
    ELSE CHOOSE v \in {ids[j] : j \in 1..Len(ids)} :
            \A j \in 1..Len(ids) : ids[j] <= v

\* C21: fitts.max_id is the largest index of difficulty computed so far in
\* the session (0 if none); whenever top_3_hardest is not empty max_id is
\* the id of its first entry; and max_id_element / max_id_distance_px /
\* max_id_target_size are set by the click that first reached that value:
\* a click whose id exceeds max_id writes its own label, distance and
\* target size, any other click leaves the three fields as they are.
C21_MaxIdIsLargestSoFar ==
    /\ [](LET f == IF store.recordingState.currentRecording = <<>>
                   THEN EmptyMetrics.fitts
                   ELSE Rec(store.recordingState).metrics.fitts
              ids == IF store.recordingState.currentRecording = <<>>
                     THEN <<>> ELSE store.recordingState.ids
          IN  /\ f.max_id = C21_Largest(ids)
              /\ f.top_3_hardest # <<>> => f.max_id = f.top_3_hardest[1].id
              /\ ids = <<>> => /\ f.max_id_element = <<>>
                               /\ f.max_id_distance_px = 0)
    /\ [][ \A i \in 1..Len(tasks) :
          (tasks[i].status = "read" /\ tasks'[i].status = "written"
                /\ tasks[i].payload.type = "click")
              => LET rs == tasks[i].local[1]
                     p == tasks[i].payload
                     f == Rec(rs).metrics.fitts
                     f1 == Rec(store'.recordingState).metrics.fitts
                     ids1 == store'.recordingState.ids
                 IN  IF Len(ids1) > Len(rs.ids) /\ ids1[Len(ids1)] > f.max_id
                     THEN LET dx == p.x - rs.lastClickPosition[1].x
                              dy == p.y - rs.lastClickPosition[1].y
                          IN  /\ f1.max_id = ids1[Len(ids1)]
                              /\ f1.max_id_element = ClickLabel(p)
                              /\ f1.max_id_distance_px * f1.max_id_distance_px
                                    = dx * dx + dy * dy
                              /\ f1.max_id_target_size
                                    = <<[w |-> p.target[1].rect.width,
                                         h |-> p.target[1].rect.height]>>
                     ELSE /\ f1.max_id = f.max_id
                          /\ f1.max_id_element = f.max_id_element
                          /\ f1.max_id_distance_px = f.max_id_distance_px
                          /\ f1.max_id_target_size = f.max_id_target_size ]_vars

\* three IDs were computed, the second the largest: max_id is still the
\* second one and names the target of that click after an easier click
C21_MaxKeptAfterEasierClick ==
    LET f == Rec(store.recordingState).metrics.fitts
        ids == store.recordingState.ids
    IN  /\ store.recordingState.currentRecording # <<>>
        /\ Len(ids) = 3
        /\ ids[2] > ids[1] /\ ids[2] > ids[3]
        /\ f.max_id = ids[2]
        /\ f.max_id_element = <<"B">>
        /\ store.recordingState.lastClickTarget # <<"B">>

\* C22: the action log never holds more than ACTION_LOG_MAX = 500 entries;
\* every processed click appends its entry at the end, and when the log was
\* full the oldest entry is evicted, so that the log is the most recent 500
\* clicks in the order they were processed.
C22_ActionLogRingBuffer ==
    /\ [](store.recordingState.currentRecording # <<>>
            => Len(Rec(store.recordingState).action_log) <= ACTION_LOG_MAX)
    /\ [][ \A i \in 1..Len(tasks) :
          (tasks[i].status = "read" /\ tasks'[i].status = "written"
                /\ tasks[i].payload.type = "click")
              => LET p == tasks[i].payload
                     log == Rec(tasks[i].local[1]).action_log
                     log1 == Rec(store'.recordingState).action_log
                     entry == [type |-> "click", timestamp |-> p.timestamp,
                               target |-> ElLabel(p.target[1]),
                               text |-> p.target[1].innerText,
                               classification |->
                                  IF p.classification = "" THEN "productive"
                                  ELSE p.classification]
                 IN  log1 = IF Len(log) < ACTION_LOG_MAX
                            THEN Append(log, entry)
                            ELSE Tail(log) \o <<entry>> ]_vars

\* 502 clicks were processed, the last two on B and on A: the log holds
\* 500 entries ending with these two
C22_OldestEvicted ==
    LET r == Rec(store.recordingState)
    IN  /\ store.recordingState.currentRecording # <<>>
        /\ r.metrics.click_count.total = ACTION_LOG_MAX + 2
        /\ Len(r.action_log) = ACTION_LOG_MAX
        /\ r.action_log[ACTION_LOG_MAX - 1].text = <<"B">>
        /\ r.action_log[ACTION_LOG_MAX].text = <<"A">>

\* C23 as stated: the length of ceremonial_details equals the ceremonial
\* counter and the length of wasted_details equals the wasted counter,
\* whether or not the clicks carried a reason.
C23_DetailsMatchCounters ==
    LET cc == Rec(store.recordingState).metrics.click_count
    IN  store.recordingState.currentRecording # <<>>
            => /\ Len(cc.ceremonial_details) = cc.ceremonial
               /\ Len(cc.wasted_details) = cc.wasted

\* C23 amended: a click classified ceremonial (respectively wasted) that
\* carries a non-empty reason appends exactly one {element, reason} entry
\* to ceremonial_details (respectively wasted_details); a ceremonial or
\* wasted click without a reason is counted and appends nothing; a
\* productive click appends to neither list. Each detail list is therefore
\* never longer than its counter.
C23_DetailOnlyWithReason ==
    /\ [](LET cc == Rec(store.recordingState).metrics.click_count
          IN  store.recordingState.currentRecording # <<>>
                => /\ Len(cc.ceremonial_details) <= cc.ceremonial
                   /\ Len(cc.wasted_details) <= cc.wasted)
    /\ [][ \A i \in 1..Len(tasks) :
          (tasks[i].status = "read" /\ tasks'[i].status = "written"
                /\ tasks[i].payload.type = "click")
              => LET p == tasks[i].payload
                     cc == Rec(tasks[i].local[1]).metrics.click_count
                     cc1 == Rec(store'.recordingState).metrics.click_count
                     detail == [element |-> p.target[1].tagName
                                    \o (IF p.target[1].id = <<>> THEN <<>>
                                        ELSE <<"#">> \o p.target[1].id),
                                reason |-> p.classificationReason]
                     withReason == p.classificationReason # <<>>
                 IN  /\ cc1.ceremonial_details =
                            IF p.classification = "ceremonial" /\ withReason
                            THEN Append(cc.ceremonial_details, detail)
                            ELSE cc.ceremonial_details
                     /\ cc1.wasted_details =
                            IF p.classification = "wasted" /\ withReason
                            THEN Append(cc.wasted_details, detail)
                            ELSE cc.wasted_details
                     /\ cc1.ceremonial = cc.ceremonial
                            + (IF p.classification = "ceremonial" THEN 1 ELSE 0)
                     /\ cc1.wasted = cc.wasted
                            + (IF p.classification = "wasted" THEN 1 ELSE 0) ]_vars

\* two wasted clicks, one with a reason and one without, and a ceremonial
\* click without a reason: one wasted detail, no ceremonial detail
C23_CountedWithoutDetail ==
    LET cc == Rec(store.recordingState).metrics.click_count
    IN  /\ store.recordingState.currentRecording # <<>>
        /\ cc.wasted = 2 /\ Len(cc.wasted_details) = 1
        /\ cc.wasted_details[1] = [element |-> S_BUTTON \o <<"#", "b">>,
                                   reason |-> <<"r">>]
        /\ cc.ceremonial = 1 /\ cc.ceremonial_details = <<>>

\* C24: scroll and keyboard metrics are latest-value-wins. Handling a
\* scroll update sets every scroll_distance field to the value of the
\* update (0 for an absent total_horizontal_px) whatever the fields held
\* before, and leaves the keyboard groups as they are; handling a keyboard
\* update sets context_switches, shortcut_coverage.shortcuts_used and
\* typing_ratio to the values of the update and leaves scroll_distance as it
\* is. So each group equals the fields of the most recently handled update
\* of its type, and handling the same update twice gives the same fields
\* as handling it once.
C24_LatestValueWins ==
    [][ \A i \in 1..Len(tasks) :
          (tasks[i].status = "read" /\ tasks'[i].status = "written")
              => LET p == tasks[i].payload
                     m == Rec(tasks[i].local[1]).metrics
                     m1 == Rec(store'.recordingState).metrics
                 IN  /\ p.type = "scroll_update" =>
                          /\ m1.scroll_distance =
                                [total_px |-> p.total_px,
                                 page_scroll_px |-> <<p.page_scroll_px>>,
                                 container_scroll_px |-> <<p.container_scroll_px>>,
                                 total_horizontal_px |->
                                    IF p.total_horizontal_px = <<>> THEN <<0>>
                                    ELSE p.total_horizontal_px,
                                 scroll_events |-> <<p.scroll_events>>,
                                 heaviest_container |-> p.heaviest_container]
                          /\ m1.context_switches = m.context_switches
                          /\ m1.shortcut_coverage = m.shortcut_coverage
                          /\ m1.typing_ratio = m.typing_ratio
                     /\ p.type = "keyboard_update" =>
                          /\ m1.context_switches.total = p.context_switches.total
                          /\ m1.context_switches.ratio = p.context_switches.ratio
                          /\ m1.context_switches.longest_keyboard_streak
                                = <<p.context_switches.longest_keyboard_streak>>
                          /\ m1.context_switches.longest_mouse_streak
                                = <<p.context_switches.longest_mouse_streak>>
                          /\ m1.shortcut_coverage
                                = [shortcuts_used |-> p.shortcut_coverage.shortcuts_used]
                          /\ m1.typing_ratio = p.typing_ratio
                          /\ m1.scroll_distance = m.scroll_distance ]_vars

\* the scroll update with 3500 px was handled first (and fed), the one
\* with 2000 px after it, then a keyboard update: the scroll fields are
\* those of the 2000 px update
C24_SecondScrollOverwrites ==
    LET m == Rec(store.recordingState).metrics
    IN  /\ store.recordingState.currentRecording # <<>>
        /\ store.recordingState.applied = {1, 2, 3}
        /\ lastScrollTotal = 3500
        /\ m.scroll_distance.total_px = 2000
        /\ m.scroll_distance.total_horizontal_px = <<0>>
        /\ m.scroll_distance.scroll_events = <<10>>
        /\ m.context_switches.total = 7

C26_ProcessorsKeepOtherGroups ==
    [][ \A i \in 1..Len(tasks) :
          (tasks[i].status = "read" /\ tasks'[i].status = "written")
              => LET p == tasks[i].payload
                     r == Rec(tasks[i].local[1])
                     r1 == Rec(store'.recordingState)
                     m == r.metrics
                     m1 == r1.metrics
                 IN  /\ p.type = "scroll_update" =>
                          /\ m1.click_count = m.click_count
                          /\ m1.fitts = m.fitts
                          /\ m1.scanning_distance = m.scanning_distance
                          /\ m1.context_switches = m.context_switches
                          /\ m1.shortcut_coverage = m.shortcut_coverage
                          /\ m1.typing_ratio = m.typing_ratio
                          /\ r1.action_log = r.action_log
                     /\ p.type = "keyboard_update" =>
                          /\ m1.click_count = m.click_count
                          /\ m1.fitts = m.fitts
                          /\ m1.scanning_distance = m.scanning_distance
                          /\ m1.scroll_distance = m.scroll_distance
                          /\ r1.action_log = r.action_log
                     /\ p.type = "click" =>
                          /\ m1.scroll_distance = m.scroll_distance
                          /\ m1.context_switches = m.context_switches
                          /\ m1.shortcut_coverage = m.shortcut_coverage
                          /\ m1.typing_ratio = m.typing_ratio ]_vars

\* a click, then a keyboard update: the click's count and log entry are
\* still there next to the keyboard values
C26_KeyboardAfterClick ==
    LET r == Rec(store.recordingState)
    IN  /\ store.recordingState.currentRecording # <<>>
        /\ Len(feed) = 2
        /\ feed[1].type = "click" /\ feed[2].type = "keyboard_update"
        /\ r.metrics.click_count.total = 1
        /\ Len(r.action_log) = 1
        /\ r.metrics.context_switches.total = 3
        /\ r.metrics.scroll_distance.total_px = 0

\* C27 as stated: each idle gap appended to idle_gaps is announced by
\* exactly one 'gap' feed entry: there are never more 'gap' entries in the
\* feed than idle gaps in the stored report, and once every handled event
\* has sent its feed entries there are exactly as many.
C27_EachGapAnnouncedOnce ==
    LET gaps == IF store.recordingState.currentRecording = <<>> THEN <<>>
                ELSE Rec(store.recordingState).metrics.time_on_task.idle_gaps
        announced == Cardinality({k \in 1..Len(feed) : feed[k].type = "gap"})
    IN  /\ announced <= Len(gaps)
        /\ (\A i \in 1..Len(tasks) : tasks[i].status # "written")
                => announced = Len(gaps)

\* C28 as stated: start and stop transitions never overlap: at any moment
\* at most one startRecording or stopRecording call has begun and not yet
\* returned, whether it was requested by a message or by the
\* toggle-recording command.
C28_TransitionsNeverOverlap ==
    Cardinality({c \in 1..Len(calls) :
                    calls[c].kind \in {"start", "stop"} /\ calls[c].pc # "done"}) <= 1

\* C29 as stated: once the content script has received RECORDING_STOPPED,
\* the keyboard collector has flushed its last update and the worker has
\* handled it, the finalized report's context_switches (total, ratio and
\* the longest keyboard and mouse streaks) are those of the flushed update.
C29_FinalFlushInReport ==
    (/\ \E k \in 1..Len(outbox) : outbox[k].to = "content"
     /\ \A i \in 1..Len(tasks) : tasks[i].status \in {"done", "failed"}
     /\ store.benchmarkReport # <<>>)
        => \E p \in LaterKeyboardPayloads :
              LET cs == store.benchmarkReport[1].metrics.context_switches
              IN  /\ cs.total = p.context_switches.total
                  /\ cs.longest_keyboard_streak
                        = <<p.context_switches.longest_keyboard_streak>>
                  /\ cs.longest_mouse_streak
                        = <<p.context_switches.longest_mouse_streak>>

\* a run that is well formed: it has metrics.click_count.total, a number
C30_WellFormed(run) ==
    /\ run # <<>>
    /\ run[1].metrics # <<>>
    /\ run[1].metrics[1].click_count # <<>>
    /\ run[1].metrics[1].click_count[1].total.type = "number"

\* C30: given a list of reports none of which is valid, the Report Averager
\* fails (NoValidReports) and produces no averaged report, and the export
\* handler writes no file.
C30_NoValidReportsNoExport ==
    /\ []((\A k \in 1..Len(sessionRuns) : ~C30_WellFormed(sessionRuns[k]))
            => /\ buildAveragedReport(sessionRuns).threw
               /\ buildAveragedReport(sessionRuns).report = <<>>
               /\ downloads = <<>>)
    /\ []((\E k \in 1..Len(sessionRuns) : C30_WellFormed(sessionRuns[k]))
            => ~buildAveragedReport(sessionRuns).threw)

\* two stored runs, a null one and one whose total is a string: the
\* handler ran, logged the failure and wrote no file
C30_WarnedInsteadOfExport ==
    /\ Len(sessionRuns) = 2
    /\ sessionRuns[1] = <<>>
    /\ sessionRuns[2] # <<>>
    /\ sessionRuns[2][1].metrics # <<>>
    /\ sessionRuns[2][1].metrics[1].click_count # <<>>
    /\ sessionRuns[2][1].metrics[1].click_count[1].total.type = "string"
    /\ Len(warnings) = 1
    /\ downloads = <<>>

\* the valid runs of a list, and the sum of a field over them
C31_ValidRuns(runs) == SelectSeq(runs, C30_WellFormed)

RECURSIVE C31_SumInMetrics(_, _)
C31_SumInMetrics(runs, path) ==
    IF runs = <<>> THEN 0
    ELSE getPath(runs[1][1].metrics[1], path)
            + C31_SumInMetrics(Tail(runs), path)

\* v is sum / count rounded to the unit of the rule, a half upwards
C31_IsRoundedMean(round, v, sum, count) ==
    LET unit == IF round = "round2" THEN 10 ELSE 1000
    IN  /\ v % unit = 0
        /\ 2 * v * count <= 2 * sum + unit * count
        /\ 2 * v * count > 2 * sum - unit * count

\* C31: for every field of the averaging list, metrics.compositeScore
\* included, the value at the field's place in the averaged report's
\* metrics is the field's rounding rule applied to the arithmetic mean of
\* the field over the valid input reports, invalid ones counting neither
\* in the sum nor in the count.
C31_EveryFieldIsRoundedMean ==
    \A d \in 1..Len(downloads) : \A k \in 1..Len(AVG_FIELDS) :
        C31_IsRoundedMean(AVG_FIELDS[k].round,
            getPath(downloads[d].report.metrics[1], AVG_FIELDS[k].path),
            C31_SumInMetrics(C31_ValidRuns(sessionRuns), AVG_FIELDS[k].path),
            Len(C31_ValidRuns(sessionRuns)))

\* C32 as stated: the average of two identical valid reports has every
\* averaged numeric field identical to the input's field, run_count = 2
\* and averaged = true.
C32_IdenticalReportsUnchanged ==
    \A d \in 1..Len(downloads) :
        (Len(sessionRuns) = 2 /\ sessionRuns[1] = sessionRuns[2]
            /\ C30_WellFormed(sessionRuns[1]))
        => /\ \A k \in 1..Len(AVG_FIELDS) :
                getPath(downloads[d].report.metrics[1], AVG_FIELDS[k].path)
                    = getPath(sessionRuns[1][1].metrics[1], AVG_FIELDS[k].path)
           /\ downloads[d].report.metadata.run_count = 2
           /\ downloads[d].report.metadata.averaged = TRUE

\* C32 (amended): the average of two identical valid reports has every
\* averaged numeric field other than the composite score equal to the
\* field's rounding rule applied to the input's value (Math.round to a whole
\* number, round2 to hundredths), so identical to it where the input is
\* already that round; metrics.composite_score is the input's value as it
\* is; run_count = 2 and averaged = true.
C32_IdenticalReportsRounded ==
    \A d \in 1..Len(downloads) :
        (Len(sessionRuns) = 2 /\ sessionRuns[1] = sessionRuns[2]
            /\ C30_WellFormed(sessionRuns[1]))
        => /\ \A k \in 1..Len(AVG_FIELDS) :
                LET path == AVG_FIELDS[k].path
                    out == getPath(downloads[d].report.metrics[1], path)
                    in == getPath(sessionRuns[1][1].metrics[1], path)
                IN  IF path = <<"composite_score">> THEN out = in
                    ELSE /\ C31_IsRoundedMean(AVG_FIELDS[k].round, out, in, 1)
                         /\ (C31_IsRoundedMean(AVG_FIELDS[k].round, in, in, 1)
                                => out = in)
           /\ downloads[d].report.metadata.run_count = 2
           /\ downloads[d].report.metadata.averaged = TRUE

\* RunA averaged with itself: 2.585 bits became 2.59, 70.71 px became 71,
\* 3 clicks stayed 3
C32_RunATwice ==
    /\ sessionRuns = <<RunA, RunA>>
    /\ Len(downloads) = 1
    /\ downloads[1].report.metrics[1].fitts[1].average_id = Num(2590)
    /\ downloads[1].report.metrics[1].scanning_distance[1].average_px = Num(71000)
    /\ downloads[1].report.metrics[1].click_count[1].total = Num(3000)
    /\ downloads[1].report.metadata.run_count = 2

\* total = productive + ceremonial + wasted in a metrics object
C33_ClicksAddUp(metrics) ==
    getPath(metrics, <<"click_count", "total">>)
        = getPath(metrics, <<"click_count", "productive">>)
            + getPath(metrics, <<"click_count", "ceremonial">>)
            + getPath(metrics, <<"click_count", "wasted">>)

\* C33: every report has click_count.total = productive + ceremonial +
\* wasted, the averaged report made from valid reports that each have it
\* included.
C33_AveragedClicksAddUp ==
    \A d \in 1..Len(downloads) :
        (\A i \in 1..Len(sessionRuns) :
            C30_WellFormed(sessionRuns[i])
                => C33_ClicksAddUp(sessionRuns[i][1].metrics[1]))
        => C33_ClicksAddUp(downloads[d].report.metrics[1])

\* the top_3_hardest entries of the valid runs, one list after the other
RECURSIVE C34_Entries(_)
C34_Entries(runs) ==
    IF runs = <<>> THEN <<>>
    ELSE (IF C30_WellFormed(runs[1])
             /\ "fitts" \in DOMAIN runs[1][1].metrics[1]
          THEN runs[1][1].metrics[1].fitts[1].top_3_hardest ELSE <<>>)
            \o C34_Entries(Tail(runs))

C34_Count(list, e) == Cardinality({i \in 1..Len(list) : list[i] = e})

\* C34: in the averaged report fitts.top_3_hardest holds the (up to)
\* three entries with the highest id among the top_3_hardest entries of
\* all valid input reports, in descending order of id, and
\* fitts.max_id_element is the max_id_element of a valid report that has
\* the greatest max_id.
C34_HardestMerged ==
    \A d \in 1..Len(downloads) :
        LET all == C34_Entries(sessionRuns)
            top == downloads[d].report.metrics[1].fitts[1].top_3_hardest
            valid == C31_ValidRuns(sessionRuns)
        IN  /\ Len(top) = Min(3, Len(all))
            /\ \A i \in 1..Len(top) - 1 : top[i].id >= top[i + 1].id
            /\ \A i \in 1..Len(top) : C34_Count(top, top[i]) <= C34_Count(all, top[i])
            /\ \A i \in 1..Len(all) :
                    C34_Count(all, all[i]) > C34_Count(top, all[i])
                        => all[i].id <= top[Len(top)].id
            /\ \E i \in 1..Len(valid) :
                    /\ \A j \in 1..Len(valid) :
                            getPath(valid[j][1].metrics[1], <<"fitts", "max_id">>)
                                <= getPath(valid[i][1].metrics[1], <<"fitts", "max_id">>)
                    /\ downloads[d].report.metrics[1].fitts[1].max_id_element
                        = IF "fitts" \in DOMAIN valid[i][1].metrics[1]
                          THEN valid[i][1].metrics[1].fitts[1].max_id_element
                          ELSE ""

\* RunB and RunC merged: Close and Tab (4.455 bits each) before Save (3),
\* Link (1.545) dropped, and the element of the first run with 4.455 bits
C34_FourEntriesMerged ==
    /\ sessionRuns = <<RunB, RunC>>
    /\ Len(downloads) = 1
    /\ downloads[1].report.metrics[1].fitts[1].top_3_hardest
        = <<FittsEntry("Close", 4455), FittsEntry("Tab", 4455),
            FittsEntry("Save", 3000)>>
    /\ downloads[1].report.metrics[1].fitts[1].max_id_element = "Close"

\* C35: the Report Averager never mutates its inputs: after
\* buildAveragedReport has returned or failed, every report of the input
\* collection, the base of the result included, is as it was before.
C35_InputsNeverMutated ==
    /\ [](\A runs \in {sessionRuns} : buildAveragedReport(runs).runs = runs)
    /\ [][sessionRuns' = sessionRuns]_vars

\* RunA and RunB exported: RunB, the base of the result, is still RunB,
\* and the averaged report is another report
C35_BaseLeftAlone ==
    /\ sessionRuns = <<RunA, RunB>>
    /\ Len(downloads) = 1
    /\ downloads[1].report # RunB[1]
    /\ downloads[1].report.metadata.run_count = 2

\* the reports in the store: the session's report and the finalized one
C36_PersistedReports ==
    (IF store.recordingState.currentRecording # <<>>
     THEN {Rec(store.recordingState)} ELSE {})
        \cup (IF store.benchmarkReport # <<>>
              THEN {store.benchmarkReport[1]} ELSE {})

\* C36: an event whose processing fails part-way (a click with no target)
\* leaves the persisted session state, report and stats record exactly as
\* they were: its idle gap, its lastActionTime and label and its click
\* count are in no state that a later event reads and in no finalized
\* report.
C36_FailedEventLeavesNoTrace ==
    /\ [][\A i \in 1..Len(tasks) :
            (tasks[i].status = "read" /\ tasks'[i].status = "failed")
                => store' = store]_vars
    /\ [](\A rec \in C36_PersistedReports :
            /\ rec.metrics.click_count.total = Len(rec.action_log)
            /\ rec.metrics.click_count.total = rec.metrics.click_count.productive
            /\ \A g \in 1..Len(rec.metrics.time_on_task.idle_gaps) :
                    rec.metrics.time_on_task.idle_gaps[g].before_action # S_click)
    /\ [](store.recordingState.lastActionLabel # S_click)
    /\ [](\A i \in 1..Len(tasks) :
            tasks[i].local # <<>> => tasks[i].local[1].lastActionLabel # S_click
                                        \/ tasks[i].status = "failed")

\* a click without a target failed 3001 ms after the start, a click on A
\* followed 3001 ms later and the session was stopped: the report counts
\* one click and one idle gap of 6002 ms, from the start to the click on A
C36_FailedClickThenGoodClick ==
    /\ Len(tasks) = 2
    /\ tasks[1].status = "failed"
    /\ tasks[2].status = "done"
    /\ store.benchmarkReport # <<>>
    /\ store.benchmarkReport[1].metrics.click_count.total = 1
    /\ Len(store.benchmarkReport[1].metrics.time_on_task.idle_gaps) = 1
    /\ store.benchmarkReport[1].metrics.time_on_task.idle_gaps[1].gap_ms
            = 2 * (IDLE_GAP_MS + 1)
    /\ store.benchmarkReport[1].metrics.time_on_task.idle_gaps[1].after_action
            = S_start

\* v is c (thousandths) rounded to one decimal, a half upwards
C37_IsRoundedToTenth(v, c) == v % 100 = 0 /\ v - 50 <= c /\ c < v + 50

\* C37: after every state-changing event processed while recording, the
\* persisted stats record agrees with the report persisted by the same
\* storage.set: clicks is click_count.total, scroll is the (whole-pixel)
\* scroll_distance.total_px, switches is context_switches.total and
\* composite is the composite of that report rounded to one decimal.
C37_StatsAgreeWithReport ==
    /\ [][\A i \in 1..Len(tasks) :
            (tasks[i].status = "read" /\ tasks'[i].status = "written")
                => store'.stats # <<>>]_vars
    /\ []((store.stats # <<>> /\ store.recordingState.currentRecording # <<>>)
            => LET m == Rec(store.recordingState).metrics
                   stats == store.stats[1]
               IN  /\ stats.clicks = m.click_count.total
                   /\ stats.scroll = m.scroll_distance.total_px
                   /\ stats.switches = m.context_switches.total
                   /\ C37_IsRoundedToTenth(stats.composite, computeComposite(m)))

\* a scroll update and a keyboard update were processed: the stats show
\* 2000 px, 3 switches and a composite above zero
C37_StatsAfterScrollAndKeyboard ==
    /\ store.stats # <<>>
    /\ store.stats[1].clicks = 0
    /\ store.stats[1].scroll = 2000
    /\ store.stats[1].switches = 3
    /\ store.stats[1].composite > 0
    /\ Rec(store.recordingState).metrics.scroll_distance.total_px = 2000
    /\ Rec(store.recordingState).metrics.context_switches.total = 3

\* C38: once stopRecording has written isRecording = false and the
\* finalized report, the persisted flag stays false until the next start
\* (there is none in this specification) and no event changes the
\* persisted session state or the finalized report, not even an event that
\* had read the recording state when stopRecording ran.
C38_NothingChangesAfterStop ==
    /\ [](store.benchmarkReport # <<>> => ~store.recordingState.isRecording)
    /\ [][store.benchmarkReport # <<>> => store' = store]_vars

\* C39: a side panel that has entered STARTING or STOPPING by sending
\* START_RECORDING or STOP_RECORDING eventually has its transient state
\* cleared; it is never left in STARTING or STOPPING for good.
C39_TransientStateIsLeft == (transientState # <<>>) ~> (transientState = <<>>)

\* the sessions started so far: the startRecording calls that have written
C40_Sessions == {c \in 1..Len(calls) : calls[c].kind = "start" /\ calls[c].wrote}

\* C40: every stopped session contributes exactly one report to
\* sessionRuns: there are never more reports than sessions, and a finalized
\* report leaves storage only when sessionRuns holds it.
C40_OneReportPerSession ==
    /\ [](Len(sessionRuns) <= Cardinality(C40_Sessions))
    /\ [][store.benchmarkReport # <<>> /\ store'.benchmarkReport = <<>>
            => \E i \in 1..Len(sessionRuns') :
                    sessionRuns'[i] = store.benchmarkReport]_vars

====
